---- MODULE Spec2Model ----
(***************************************************************************)
(* Model of the caching and resolution core and of the detail view of      *)
(* the Pokedex application (pokedex/src: App.jsx and offlineDB.js).        *)
(*                                                                         *)
(* Execution model: JavaScript's single thread with cooperative async      *)
(* functions.  Every task is a stack of frames, one frame per async        *)
(* function activation; one action is the code that runs between two       *)
(* suspension points (await).  A call runs the callee's synchronous        *)
(* prefix inside the caller's step, as JavaScript does.  The effect of an  *)
(* IndexedDB request (get / put) is applied when the awaiting function is  *)
(* resumed.                                                                *)
(*                                                                         *)
(* Names are sequences of hyphen-separated words:                          *)
(* "raichu-alola" is <<"raichu","alola">>, so `${a}-${b}` is a \o <<b>>.   *)
(***************************************************************************)
EXTENDS Integers, Sequences, FiniteSets, TLC

(***************************************************************************)
(* Bounds of the model                                                     *)
(***************************************************************************)
MaxCalls == 3
MaxRestarts == 1
MaxSmartCalls == 2
MaxGenCalls == 3
MaxSlugLen == 5
NumTasks == 2
MaxEffects == 2
MaxCands == 3
MaxRows == 3
MaxNodes == 3
MaxPresent == 2
MaxEntries == 3
MaxLoops == 2

Tasks == 1..NumTasks

(***************************************************************************)
(* JavaScript values.  Every value is a record with a kind field.          *)
(***************************************************************************)
Undefined == [kind |-> "undefined"]
Null == [kind |-> "null"]
Malformed == [kind |-> "malformed"]
ErrBody == [kind |-> "errbody"]
NoResponse == [kind |-> "noresponse"]
Thrown == [kind |-> "thrown"]
Bool(b) == [kind |-> "bool", v |-> b]
Num(n) == [kind |-> "num", v |-> n]

\* JavaScript truthiness of the values a payload slot can hold: undefined and
\* null are falsy, false is falsy, every object is truthy.
Truthy(v) ==
  /\ v.kind \notin {"undefined", "null"}
  /\ (v.kind = "bool" => v.v)

(***************************************************************************)
(* The remote API (read-only, fixed): which resources exist and what they  *)
(* contain.                                                                *)
(***************************************************************************)
Raichu == <<"raichu">>
RaichuAlola == <<"raichu", "alola">>
Deoxys == <<"deoxys">>
DeoxysNormal == <<"deoxys", "normal">>
Ghost == <<"missingno">>

UpstreamPokemon == {Raichu, RaichuAlola, DeoxysNormal}
UpstreamSpecies == {Raichu, Deoxys}

\* the forms field of a pokemon payload: the names of its forms
PokemonForms(n) == <<n>>

Variety(isDefault, pokemonName) == [is_default |-> isDefault, pokemon |-> pokemonName]

SpeciesVarieties(s) ==
  IF s = Raichu THEN <<Variety(TRUE, Raichu), Variety(FALSE, RaichuAlola)>>
  ELSE IF s = Deoxys THEN <<Variety(TRUE, DeoxysNormal)>>
  ELSE <<>>

\* Versions and version groups.  A generation slug is a string, written as
\* the sequence of its pieces: the piece "generation-" and single letters.
Slug(pieces) == [kind |-> "str", v |-> pieces]
NameVal(n) == [kind |-> "name", name |-> n]

Red == <<"red">>
Odd == <<"odd">>
Beta == <<"beta">>
RedBlue == <<"red", "blue">>
BetaGroup == <<"beta", "group">>
NoGenGroup == <<"nogen", "group">>
LostGroup == <<"lost", "group">>

\* version -> its version_group field (Undefined: the field is missing)
UpstreamVersion(v) ==
  IF v = Red THEN NameVal(RedBlue)
  ELSE IF v = Beta THEN NameVal(BetaGroup)
  ELSE Undefined
UpstreamVersions == {Red, Odd, Beta}

\* version group -> its generation.name field
UpstreamGroup(g) ==
  IF g = RedBlue THEN Slug(<<"generation-", "i">>)
  ELSE IF g = BetaGroup THEN Slug(<<"generation-", "x">>)
  ELSE Undefined
UpstreamGroups == {RedBlue, BetaGroup, NoGenGroup}

\* moves, abilities, items and item categories
Tackle == <<"tackle">>
Static == <<"static">>
ThunderStone == <<"thunder", "stone">>
HeldItems == <<"held", "items">>

\* the sprites field of a pokemon payload (urls)
Image(n, mode) == [kind |-> "str", v |-> <<n, mode>>]
PokemonSprites(n) ==
  IF n = Raichu THEN [front_default |-> Image(n, "normal"), front_shiny |-> Image(n, "shiny")]
  ELSE IF n = RaichuAlola THEN [front_default |-> Image(n, "normal"), front_shiny |-> Null]
  ELSE [front_default |-> Null, front_shiny |-> Null]

Url(kind, name) == [kind |-> kind, name |-> name]

\* The body the API serves under a request key; Undefined when there is no
\* such resource (404).
Upstream(key) ==
  IF key.kind = "pokemon" /\ key.name \in UpstreamPokemon
    THEN [kind |-> "pokemon", name |-> key.name, forms |-> PokemonForms(key.name),
          sprites |-> PokemonSprites(key.name)]
  ELSE IF key.kind = "pokemon-species" /\ key.name \in UpstreamSpecies
    THEN [kind |-> "species", name |-> key.name, varieties |-> SpeciesVarieties(key.name)]
  ELSE IF key.kind = "version" /\ key.name \in UpstreamVersions
    THEN [kind |-> "version", name |-> key.name, version_group |-> UpstreamVersion(key.name)]
  ELSE IF key.kind = "version-group" /\ key.name \in UpstreamGroups
    THEN [kind |-> "version-group", name |-> key.name, generation |-> UpstreamGroup(key.name)]
  ELSE IF key.kind = "move" /\ key.name = Tackle
    THEN [kind |-> "move", name |-> key.name, type |-> NameVal(<<"normal">>),
          damage_class |-> NameVal(<<"physical">>)]
  ELSE IF key.kind = "ability" /\ key.name = Static
    THEN [kind |-> "ability", name |-> key.name]
  ELSE IF key.kind = "item" /\ key.name = ThunderStone
    THEN [kind |-> "item", name |-> key.name]
  ELSE IF key.kind = "item-category" /\ key.name = HeldItems
    THEN [kind |-> "item-category", name |-> key.name,
          items |-> <<NameVal(ThunderStone), [kind |-> "name", name |-> Undefined]>>]
  ELSE Undefined

\* What `await fetch(url)` can produce: a transport failure (NoResponse), a
\* non-success status, or a success status; the body of a response may be
\* malformed (truncated transfer, HTML from a proxy).
Response(ok, body) == [kind |-> "response", ok |-> ok, body |-> body]

NetResponses(key) ==
  {NoResponse, Response(FALSE, ErrBody), Response(FALSE, Malformed)}
    \cup (IF Upstream(key) # Undefined
            THEN {Response(TRUE, Upstream(key)), Response(TRUE, Malformed)}
            ELSE {})

(***************************************************************************)
(* State                                                                   *)
(***************************************************************************)
VARIABLES
  store,        \* IndexedDB object store "api-cache": request key -> payload
  dbOk,         \* whether openDB resolved (dbPromise fulfilled)
  stack,        \* per task: the stack of async frames
  pokemonCache,
  pokemonExistsCache,
  speciesDefaultPokemonCache,
  versionGenCache,
  versionGroupGenCache,
  slugIn,       \* argument handed to genSlugToNumber
  slugOut,      \* what genSlugToNumber returned for it
  calls,        \* number of top-level calls started so far
  restarts,     \* number of page reloads so far
  first,        \* history: first completed result per (function, argument)
  lastDone,     \* history: the call that completed in the last step
  modal,        \* the DetailsModal instance: its props and state, or Closed
  alive,        \* per run of the detail effect: the `alive` flag of its closure
  commit,       \* history: the last state commit made by an async chain
  input,        \* argument handed to a pure function
  output,       \* what the function returned for it
  spriteCache,        \* "name::shiny|normal" -> sprite url
  moveCache,          \* moveName -> move json
  moveMiniCache,      \* moveName -> {type, dmgClass}
  abilityCache,       \* abilityName -> ability json
  itemCache,          \* itemName -> item json
  itemCategoryCache,  \* categoryName -> [itemName]
  downloading,        \* App state: a download is shown as running
  downloadProgress,   \* App state: percentage shown in the download bar
  downloadOpen,       \* App state: the Download menu is open
  confirmClear,       \* App state: the Delete Cache button is armed
  clearTimer          \* the auto-cancel timeout of the armed button is pending

vars == <<store, dbOk, stack, pokemonCache, pokemonExistsCache,
          speciesDefaultPokemonCache, versionGenCache, versionGroupGenCache,
          slugIn, slugOut, calls, restarts, first, lastDone, modal, alive, commit,
          input, output, spriteCache, moveCache, moveMiniCache, abilityCache, itemCache,
          itemCategoryCache, downloading, downloadProgress, downloadOpen, confirmClear,
          clearTimer>>

memVars == <<pokemonCache, pokemonExistsCache, speciesDefaultPokemonCache>>
genVars == <<versionGenCache, versionGroupGenCache>>
slugVars == <<slugIn, slugOut>>
appVars == <<downloading, downloadProgress, downloadOpen, confirmClear, clearTimer>>
viewVars == <<modal, alive, commit>>
pureVars == <<input, output>>
contentVars == <<spriteCache, moveCache, moveMiniCache, abilityCache, itemCache,
                 itemCategoryCache>>

\* No detail view is mounted.
Closed == [kind |-> "closed"]
NoCommit == [eff |-> 0, alive |-> TRUE, fields |-> {}]

(***************************************************************************)
(* Maps (JavaScript Map, IndexedDB object store) as partial functions      *)
(***************************************************************************)
EmptyMap == [x \in {} |-> Undefined]
MapHas(m, k) == k \in DOMAIN m
MapGet(m, k) == IF k \in DOMAIN m THEN m[k] ELSE Undefined
MapSet(m, k, v) == [x \in DOMAIN m \cup {k} |-> IF x = k THEN v ELSE m[x]]

\* offlineDB.js saveToCache: db.put("api-cache", data, key)
SaveToCache_NoWrite(s, key, data) == s
SaveToCache(s, key, data) == MapSet(s, key, data)

\* offlineDB.js getFromCache: db.get("api-cache", key)
GetFromCache(s, key) == MapGet(s, key)

(***************************************************************************)
(* Frames                                                                  *)
(***************************************************************************)
NoCall == [fn |-> "none", a |-> Undefined, loc |-> Undefined, res |-> Undefined,
           snap |-> Undefined, net |-> FALSE, how |-> {}, raised |-> FALSE]

CallId(fn, a) == [fn |-> fn, a |-> a]

\* snap: the first completed result of an earlier call of the same function
\* with the same argument, as known when this call starts (history).
Frame(fn, pc, a) ==
  [fn |-> fn, pc |-> pc, a |-> a, b |-> Undefined, r |-> Undefined,
   snap |-> MapGet(first, CallId(fn, a)), net |-> FALSE, how |-> {}]

Top(t) == stack[t][Len(stack[t])]
Running(t, fn, pc) == stack[t] # <<>> /\ Top(t).fn = fn /\ Top(t).pc = pc

SetTop(s, f) == [s EXCEPT ![Len(s)] = f]
MarkNet(s) == [i \in 1..Len(s) |-> [s[i] EXCEPT !.net = TRUE]]

\* Whether a completed call's result is remembered as "the first result" of
\* a memoizing function: for fetchJsonOrNull only a non-null result counts as
\* a completed fetch.
Memoizing == {"fetchJsonOrNull", "pokemonExists", "getVersionGenNumber",
              "getVersionGroupGenNumber"}
Counts(fn, v) == fn \in Memoizing /\ (fn = "fetchJsonOrNull" => v # Null)

\* The top frame of task t returns v: the frame is popped and the awaiting
\* caller (if any) receives v.
Ret(t, s, v) ==
  LET f == s[Len(s)] IN
  /\ stack' = [stack EXCEPT ![t] =
        IF Len(s) = 1 THEN <<>>
        ELSE Append(SubSeq(s, 1, Len(s) - 2), [s[Len(s) - 1] EXCEPT !.r = v])]
  /\ lastDone' = [fn |-> f.fn, a |-> f.a, loc |-> f.b, res |-> v, snap |-> f.snap,
                  net |-> f.net, how |-> f.how, raised |-> FALSE]
  /\ first' = IF Counts(f.fn, v) /\ ~MapHas(first, CallId(f.fn, f.a))
                THEN MapSet(first, CallId(f.fn, f.a), v)
                ELSE first

\* Frames of functions whose awaits sit inside a try block with a catch.
Catching == {"DetailsModal.load", "DetailsModal.variants", "downloadRegional",
             "downloadGeneral"}

Catchers(s) == {i \in 1..(Len(s) - 1) : s[i].fn \in Catching}

\* The top frame of task t throws: the rejection travels down the awaiting
\* frames to the nearest one that catches, which is resumed with the
\* exception; when no frame catches, the whole chain is abandoned (an
\* unhandled rejection).
Raise(t, s) ==
  LET f == s[Len(s)] IN
  /\ stack' = [stack EXCEPT ![t] =
        IF Catchers(s) = {} THEN <<>>
        ELSE LET i == CHOOSE i \in Catchers(s) : \A j \in Catchers(s) : j <= i
             IN Append(SubSeq(s, 1, i - 1), [s[i] EXCEPT !.r = Thrown])]
  /\ lastDone' = [fn |-> f.fn, a |-> f.a, loc |-> f.b, res |-> Undefined, snap |-> f.snap,
                  net |-> f.net, how |-> f.how, raised |-> TRUE]
  /\ first' = first

(***************************************************************************)
(* fetchJsonOrNull (App.jsx 292-306)                                       *)
(***************************************************************************)
\* Synchronous prefix: getFromCache(url) is started and awaited.
EnterFetch(s, key) == Append(s, Frame("fetchJsonOrNull", "get", key))

\* `if (cached) return cached;`
CacheHit(cached) == Truthy(cached)

\* `if (!res.ok) return null;`
ResponseAccepted_Any(res) == TRUE
ResponseAccepted(res) == res.ok

\* resumed from `await getFromCache(url)`
FetchGet(t) ==
  /\ Running(t, "fetchJsonOrNull", "get")
  /\ LET f == Top(t)
         cached == GetFromCache(store, f.a)
     IN IF ~dbOk
          THEN Raise(t, SetTop(stack[t], [f EXCEPT !.how = @ \cup {"getfail"}]))
        ELSE IF CacheHit(cached)
          THEN Ret(t, SetTop(stack[t], [f EXCEPT !.how = @ \cup {"hit"}]), cached)
        ELSE /\ stack' = [stack EXCEPT ![t] =
                   MarkNet(SetTop(stack[t], [f EXCEPT !.pc = "net", !.how = @ \cup {"miss"}]))]
             /\ UNCHANGED <<first, lastDone>>
  /\ UNCHANGED <<store, dbOk, memVars, calls, restarts, genVars, slugVars, appVars, pureVars, contentVars, viewVars>>

\* resumed from `await fetch(url)`
FetchNet(t) ==
  /\ Running(t, "fetchJsonOrNull", "net")
  /\ \E res \in NetResponses(Top(t).a) :
       LET f == Top(t) IN
       IF res = NoResponse
         THEN Ret(t, SetTop(stack[t], [f EXCEPT !.how = @ \cup {"transport"}]), Null)
       ELSE IF ~ResponseAccepted(res)
         THEN Ret(t, SetTop(stack[t], [f EXCEPT !.how = @ \cup {"notok"}]), Null)
       ELSE /\ stack' = [stack EXCEPT ![t] =
                  SetTop(stack[t], [f EXCEPT !.pc = "json", !.b = res,
                                            !.how = @ \cup {IF res.ok THEN "ok" ELSE "notok"}])]
            /\ UNCHANGED <<first, lastDone>>
  /\ UNCHANGED <<store, dbOk, memVars, calls, restarts, genVars, slugVars, appVars, pureVars, contentVars, viewVars>>

\* resumed from `await res.json()`
FetchJson(t) ==
  /\ Running(t, "fetchJsonOrNull", "json")
  /\ LET f == Top(t) IN
     IF f.b.body = Malformed
       THEN Ret(t, SetTop(stack[t], [f EXCEPT !.how = @ \cup {"decodefail"}]), Null)
     ELSE /\ stack' = [stack EXCEPT ![t] =
                SetTop(stack[t], [f EXCEPT !.pc = "put", !.b = f.b.body,
                                          !.how = @ \cup {"decoded"}])]
          /\ UNCHANGED <<first, lastDone>>
  /\ UNCHANGED <<store, dbOk, memVars, calls, restarts, genVars, slugVars, appVars, pureVars, contentVars, viewVars>>

\* resumed from `await saveToCache(url, data)`: the put either succeeded or
\* was rejected (QuotaExceededError); a rejection lands in the catch block.
FetchPut(t) ==
  /\ Running(t, "fetchJsonOrNull", "put")
  /\ LET f == Top(t) IN
     \E putOk \in BOOLEAN :
       IF putOk
         THEN /\ store' = SaveToCache(store, f.a, f.b)
              /\ Ret(t, SetTop(stack[t], [f EXCEPT !.how = @ \cup {"saved"}]), f.b)
         ELSE /\ store' = store
              /\ Ret(t, SetTop(stack[t], [f EXCEPT !.how = @ \cup {"putfail"}]), Null)
  /\ UNCHANGED <<dbOk, memVars, calls, restarts, genVars, slugVars, appVars, pureVars, contentVars, viewVars>>

(***************************************************************************)
(* Page reload: every pending chain and every in-memory map is gone, the   *)
(* IndexedDB store stays.                                                  *)
(***************************************************************************)
Restart ==
  /\ restarts < MaxRestarts
  /\ restarts' = restarts + 1
  /\ stack' = [t \in Tasks |-> <<>>]
  /\ pokemonCache' = EmptyMap
  /\ pokemonExistsCache' = EmptyMap
  /\ speciesDefaultPokemonCache' = EmptyMap
  /\ versionGenCache' = EmptyMap
  /\ versionGroupGenCache' = EmptyMap
  /\ first' = [c \in {c \in DOMAIN first : c.fn = "fetchJsonOrNull"} |-> first[c]]
  /\ lastDone' = NoCall
  /\ spriteCache' = EmptyMap
  /\ moveCache' = EmptyMap
  /\ moveMiniCache' = EmptyMap
  /\ abilityCache' = EmptyMap
  /\ itemCache' = EmptyMap
  /\ itemCategoryCache' = EmptyMap
  /\ modal' = Closed
  /\ downloading' = FALSE
  /\ downloadProgress' = 0
  /\ downloadOpen' = FALSE
  /\ confirmClear' = FALSE
  /\ clearTimer' = FALSE
  /\ UNCHANGED <<store, dbOk, calls, slugVars, pureVars, alive, commit>>

InitBase ==
  /\ store = EmptyMap
  /\ dbOk \in BOOLEAN   \* IndexedDB is available to this browser profile or not
  /\ stack = [t \in Tasks |-> <<>>]
  /\ pokemonCache = EmptyMap
  /\ pokemonExistsCache = EmptyMap
  /\ speciesDefaultPokemonCache = EmptyMap
  /\ versionGenCache = EmptyMap
  /\ versionGroupGenCache = EmptyMap
  /\ spriteCache = EmptyMap
  /\ moveCache = EmptyMap
  /\ moveMiniCache = EmptyMap
  /\ abilityCache = EmptyMap
  /\ itemCache = EmptyMap
  /\ itemCategoryCache = EmptyMap
  /\ calls = 0
  /\ restarts = 0
  /\ first = EmptyMap
  /\ lastDone = NoCall
  /\ modal = Closed
  /\ alive = <<>>
  /\ commit = NoCommit
  /\ downloading = FALSE
  /\ downloadProgress = 0
  /\ downloadOpen = FALSE
  /\ confirmClear = FALSE
  /\ clearTimer = FALSE

InitCommon ==
  /\ InitBase
  /\ slugIn = Undefined
  /\ slugOut = Undefined
  /\ input = Undefined
  /\ output = Undefined

(***************************************************************************)
(* Specification of the fetch-with-cache layer alone: callers invoke       *)
(* fetchJsonOrNull directly (downloadRegional, DetailsModal).              *)
(***************************************************************************)
FetchKeys ==
  {Url("pokemon", Raichu), Url("pokemon-species", Raichu), Url("pokemon", Ghost)}

\* A new chain takes the lowest free task slot.
FreeSlot(t) == stack[t] = <<>> /\ \A u \in Tasks : u < t => stack[u] # <<>>

CallFetch(t) ==
  /\ FreeSlot(t)
  /\ calls < MaxCalls
  /\ \E key \in FetchKeys : stack' = [stack EXCEPT ![t] = EnterFetch(<<>>, key)]
  /\ calls' = calls + 1
  /\ UNCHANGED <<store, dbOk, memVars, restarts, first, lastDone, genVars, slugVars, appVars, pureVars, contentVars, viewVars>>

NextFetch ==
  \/ \E t \in Tasks : CallFetch(t)
  \/ \E t \in Tasks : FetchGet(t)
  \/ \E t \in Tasks : FetchNet(t)
  \/ \E t \in Tasks : FetchJson(t)
  \/ \E t \in Tasks : FetchPut(t)
  \/ Restart

SpecFetch == InitCommon /\ [][NextFetch]_vars

DoneFetch == lastDone.fn = "fetchJsonOrNull"

(***************************************************************************)
(* C1: once a fetchJsonOrNull(k) call has completed with a non-null        *)
(* result, every later fetchJsonOrNull(k) call, in the same process or     *)
(* after a reload that keeps the store, returns an equal value and issues  *)
(* no network request.                                                     *)
(***************************************************************************)
C1_CacheIdempotence ==
  (DoneFetch /\ lastDone.snap # Undefined) =>
     /\ ~lastDone.raised
     /\ lastDone.res = lastDone.snap
     /\ ~lastDone.net

C1_Witness ==
  /\ DoneFetch
  /\ lastDone.snap # Undefined
  /\ lastDone.res = lastDone.snap
  /\ restarts > 0

(***************************************************************************)
(* C2: for an uncached key, a non-success status, a transport failure and  *)
(* a body that fails to decode each make fetchJsonOrNull return null; the  *)
(* call does not raise.                                                    *)
(***************************************************************************)
C2_FailuresYieldNull ==
  (DoneFetch /\ lastDone.how \cap {"notok", "transport", "decodefail"} # {}) =>
     /\ ~lastDone.raised
     /\ lastDone.res = Null

C2_Witness ==
  /\ DoneFetch
  /\ "miss" \in lastDone.how
  /\ "decodefail" \in lastDone.how
  /\ lastDone.res = Null

(***************************************************************************)
(* C3: whenever the network GET for an uncached key succeeds and its body  *)
(* decodes, fetchJsonOrNull returns the decoded value and the store maps   *)
(* the key to that value when it returns.                                  *)
(***************************************************************************)
C3_SuccessReturnsAndStores ==
  (DoneFetch /\ {"miss", "ok", "decoded"} \subseteq lastDone.how) =>
     /\ lastDone.res = Upstream(lastDone.a)
     /\ GetFromCache(store, lastDone.a) = lastDone.res

(***************************************************************************)
(* C4: fetchJsonOrNull writes the store only after a successful, decoded   *)
(* network response; on a hit, a non-success status, a transport failure   *)
(* or a decode failure the store is left unchanged.                        *)
(***************************************************************************)
C4_WriteOnlyOnSuccess ==
  [][store' # store =>
       \E t \in Tasks :
         /\ Running(t, "fetchJsonOrNull", "put")
         /\ {"miss", "ok", "decoded"} \subseteq Top(t).how
         /\ Top(t).how \cap {"hit", "notok", "transport", "decodefail"} = {}
         /\ store' = MapSet(store, Top(t).a, Upstream(Top(t).a))]_vars

C4_Witness ==
  /\ DoneFetch
  /\ "saved" \in lastDone.how
  /\ GetFromCache(store, lastDone.a) = Upstream(lastDone.a)

(***************************************************************************)
(* Name resolvers (App.jsx 253-342)                                        *)
(***************************************************************************)
Str(w) == [kind |-> "str", v |-> w]

\* String.prototype.includes on a hyphenated slug, by word.
Includes(name, w) == \E i \in 1..Len(name) : name[i] = w

DexNational == <<"national">>
DexAlola == <<"updated", "alola">>
DexGalar == <<"galar">>
DexPaldea == <<"paldea">>

regionSuffixForDex_Always(dexKey) == Str("alola")
regionSuffixForDex(dexKey) ==
  IF Includes(dexKey, "alola") THEN Str("alola")
  ELSE IF dexKey = DexGalar THEN Str("galar")
  ELSE IF dexKey = DexPaldea THEN Str("paldea")
  ELSE Null

\* Awaiting a promise that is already settled: the value is delivered in a
\* later step.
Settled(fn, a, v) == [Frame(fn, "ret", a) EXCEPT !.r = v]

Deliver(t) ==
  /\ stack[t] # <<>>
  /\ Top(t).pc = "ret"
  /\ Ret(t, stack[t], Top(t).r)
  /\ UNCHANGED <<store, dbOk, memVars, calls, restarts, genVars, slugVars, appVars, pureVars, contentVars, viewVars>>

\* pokemonExists: synchronous prefix (memo lookup, else start the fetch)
EnterExists(s, n) ==
  IF MapHas(pokemonExistsCache, n)
    THEN Append(s, Settled("pokemonExists", NameVal(n), Bool(MapGet(pokemonExistsCache, n))))
    ELSE EnterFetch(Append(s, Frame("pokemonExists", "fetched", NameVal(n))), Url("pokemon", n))

\* `pokemonExistsCache.set(pokemonName, ok)`
ExistsMemo_Always(memo, n, ok) == MapSet(memo, n, TRUE)
ExistsMemo(memo, n, ok) == MapSet(memo, n, ok)

\* pokemonExists resumed from `await fetchJsonOrNull(...)`
ExistsFetched(t) ==
  /\ Running(t, "pokemonExists", "fetched")
  /\ LET f == Top(t)
         n == f.a.name
         data == f.r
         ok == Truthy(data)
     IN /\ pokemonExistsCache' = ExistsMemo(pokemonExistsCache, n, ok)
        /\ pokemonCache' = IF ok /\ ~MapHas(pokemonCache, n)
                             THEN MapSet(pokemonCache, n, data)
                             ELSE pokemonCache
        /\ Ret(t, stack[t], Bool(ok))
  /\ UNCHANGED <<store, dbOk, speciesDefaultPokemonCache, calls, restarts, genVars, slugVars, appVars, pureVars, contentVars, viewVars>>

\* getDefaultPokemonNameFromSpecies: synchronous prefix
EnterDefault(s, sp) ==
  IF MapHas(speciesDefaultPokemonCache, sp)
    THEN Append(s, Settled("getDefaultPokemonNameFromSpecies", NameVal(sp),
                           NameVal(MapGet(speciesDefaultPokemonCache, sp))))
    ELSE EnterFetch(Append(s, Frame("getDefaultPokemonNameFromSpecies", "fetched", NameVal(sp))),
                    Url("pokemon-species", sp))

\* `sData?.varieties?.find((v) => v.is_default)?.pokemon?.name || speciesName`
DefaultVariety(sData, speciesName) ==
  IF Truthy(sData) /\ sData.kind = "species"
       /\ \E i \in 1..Len(sData.varieties) : sData.varieties[i].is_default
    THEN LET i == CHOOSE i \in 1..Len(sData.varieties) :
                    /\ sData.varieties[i].is_default
                    /\ \A j \in 1..(i - 1) : ~sData.varieties[j].is_default
         IN sData.varieties[i].pokemon
    ELSE speciesName

DefaultFetched(t) ==
  /\ Running(t, "getDefaultPokemonNameFromSpecies", "fetched")
  /\ LET f == Top(t)
         def == DefaultVariety(f.r, f.a.name)
     IN /\ speciesDefaultPokemonCache' = MapSet(speciesDefaultPokemonCache, f.a.name, def)
        /\ Ret(t, stack[t], NameVal(def))
  /\ UNCHANGED <<store, dbOk, pokemonCache, pokemonExistsCache, calls, restarts, genVars, slugVars, appVars, pureVars, contentVars, viewVars>>

\* getPokemonDataSmart: synchronous prefix
SmartArg(sp, dexKey) == [kind |-> "smart", name |-> sp, dex |-> dexKey]

EnterSmart(s, sp, dexKey) ==
  EnterDefault(Append(s, Frame("getPokemonDataSmart", "default", SmartArg(sp, dexKey))), sp)

\* `${defaultPokemon}-${suffix}`
Candidate(defaultPokemon, suffix) == defaultPokemon \o <<suffix.v>>

\* resumed from `await getDefaultPokemonNameFromSpecies(speciesName)`
SmartDefault(t) ==
  /\ Running(t, "getPokemonDataSmart", "default")
  /\ LET f == Top(t)
         suffix == regionSuffixForDex(f.a.dex)
         defaultPokemon == f.r.name
         g == [f EXCEPT !.b = f.r]
     IN stack' = [stack EXCEPT ![t] =
          IF Truthy(suffix)
            THEN EnterExists(SetTop(stack[t], [g EXCEPT !.pc = "candidate"]),
                             Candidate(defaultPokemon, suffix))
            ELSE EnterExists(SetTop(stack[t], [g EXCEPT !.pc = "defaultExists"]),
                             defaultPokemon)]
  /\ UNCHANGED <<store, dbOk, memVars, calls, restarts, first, lastDone, genVars, slugVars, appVars, pureVars, contentVars, viewVars>>

\* `if (ok)`, `if (await pokemonExists(...))`
Exists_Never(r) == FALSE
Exists(r) == r.v

\* history: what the probe answered this call
Probed(f, which) == [f EXCEPT !.how = @ \cup {<<which, f.r.v>>}]

\* resumed from `await pokemonExists(candidate)`
SmartCandidate(t) ==
  /\ Running(t, "getPokemonDataSmart", "candidate")
  /\ LET f == Probed(Top(t), "candidate")
         defaultPokemon == f.b.name
         candidate == Candidate(defaultPokemon, regionSuffixForDex(f.a.dex))
     IN IF Exists(f.r)
          THEN Ret(t, SetTop(stack[t], f), MapGet(pokemonCache, candidate))
          ELSE /\ stack' = [stack EXCEPT ![t] =
                     EnterExists(SetTop(stack[t], [f EXCEPT !.pc = "defaultExists"]),
                                 defaultPokemon)]
               /\ UNCHANGED <<first, lastDone>>
  /\ UNCHANGED <<store, dbOk, memVars, calls, restarts, genVars, slugVars, appVars, pureVars, contentVars, viewVars>>

\* resumed from `await pokemonExists(defaultPokemon)`
SmartDefaultExists(t) ==
  /\ Running(t, "getPokemonDataSmart", "defaultExists")
  /\ LET f == Probed(Top(t), "default")
         defaultPokemon == f.b.name
     IN IF Exists(f.r)
          THEN Ret(t, SetTop(stack[t], f), MapGet(pokemonCache, defaultPokemon))
          ELSE /\ stack' = [stack EXCEPT ![t] =
                     EnterExists(SetTop(stack[t], [f EXCEPT !.pc = "speciesExists"]),
                                 f.a.name)]
               /\ UNCHANGED <<first, lastDone>>
  /\ UNCHANGED <<store, dbOk, memVars, calls, restarts, genVars, slugVars, appVars, pureVars, contentVars, viewVars>>

\* resumed from `await pokemonExists(speciesName)`
SmartSpeciesExists(t) ==
  /\ Running(t, "getPokemonDataSmart", "speciesExists")
  /\ LET f == Probed(Top(t), "species")
     IN IF Exists(f.r)
          THEN Ret(t, SetTop(stack[t], f), MapGet(pokemonCache, f.a.name))
          ELSE Ret(t, SetTop(stack[t], f), Null)
  /\ UNCHANGED <<store, dbOk, memVars, calls, restarts, genVars, slugVars, appVars, pureVars, contentVars, viewVars>>

(***************************************************************************)
(* Specification of the existence probe: pokemonExists called from the     *)
(* grid cards and from the detail view, overlapping freely.                *)
(***************************************************************************)
ProbeNames == {Raichu, RaichuAlola, Ghost}

CallExists(t) ==
  /\ FreeSlot(t)
  /\ calls < MaxCalls
  /\ \E n \in ProbeNames : stack' = [stack EXCEPT ![t] = EnterExists(<<>>, n)]
  /\ calls' = calls + 1
  /\ UNCHANGED <<store, dbOk, memVars, restarts, first, lastDone, genVars, slugVars, appVars, pureVars, contentVars, viewVars>>

NextExists ==
  \/ \E t \in Tasks : CallExists(t)
  \/ \E t \in Tasks : FetchGet(t)
  \/ \E t \in Tasks : FetchNet(t)
  \/ \E t \in Tasks : FetchJson(t)
  \/ \E t \in Tasks : FetchPut(t)
  \/ \E t \in Tasks : ExistsFetched(t)
  \/ \E t \in Tasks : Deliver(t)
  \/ Restart

SpecExists == InitCommon /\ [][NextExists]_vars

DoneExists == lastDone.fn = "pokemonExists"

(***************************************************************************)
(* C5: once a pokemonExists(n) call has returned a boolean, every          *)
(* subsequent pokemonExists(n) call in the process returns that same       *)
(* boolean and performs no network access, whatever else interleaves.      *)
(***************************************************************************)
C5_ExistsMemoized ==
  (DoneExists /\ ~lastDone.raised /\ lastDone.snap # Undefined) =>
     /\ lastDone.res = lastDone.snap
     /\ ~lastDone.net

(***************************************************************************)
(* Specification of the name/variant resolver: the grid cards call         *)
(* getPokemonDataSmart for their species under the selected dex tab.       *)
(***************************************************************************)
SmartSpecies == {Raichu, Deoxys}
SmartDexes == {DexNational, DexAlola, DexGalar}

CallSmart(t) ==
  /\ FreeSlot(t)
  /\ calls < MaxSmartCalls
  /\ \E sp \in SmartSpecies, dexKey \in SmartDexes :
       stack' = [stack EXCEPT ![t] = EnterSmart(<<>>, sp, dexKey)]
  /\ calls' = calls + 1
  /\ UNCHANGED <<store, dbOk, memVars, restarts, first, lastDone, genVars, slugVars, appVars, pureVars, contentVars, viewVars>>

NextSmart ==
  \/ \E t \in Tasks : CallSmart(t)
  \/ \E t \in Tasks : FetchGet(t)
  \/ \E t \in Tasks : FetchNet(t)
  \/ \E t \in Tasks : FetchJson(t)
  \/ \E t \in Tasks : FetchPut(t)
  \/ \E t \in Tasks : ExistsFetched(t)
  \/ \E t \in Tasks : DefaultFetched(t)
  \/ \E t \in Tasks : SmartDefault(t)
  \/ \E t \in Tasks : SmartCandidate(t)
  \/ \E t \in Tasks : SmartDefaultExists(t)
  \/ \E t \in Tasks : SmartSpeciesExists(t)
  \/ \E t \in Tasks : Deliver(t)

SpecSmart == InitCommon /\ [][NextSmart]_vars

DoneSmart == lastDone.fn = "getPokemonDataSmart" /\ ~lastDone.raised

\* the entity the API serves under /pokemon/<name>
Entity(name) == Upstream(Url("pokemon", name))

(***************************************************************************)
(* C7: getPokemonDataSmart(species, dex) returns the entity named          *)
(* <default>-<suffix> when the dex maps to a regional suffix and the probe *)
(* of that name succeeds; otherwise the default-variety entity when its    *)
(* probe succeeds; otherwise the entity under the species name when its    *)
(* probe succeeds; otherwise null.  (<default> is the name the species     *)
(* lookup resolved for this call.)                                         *)
(***************************************************************************)
C7_SmartResolution ==
  DoneSmart =>
    LET sp == lastDone.a.name
        def == lastDone.loc.name
        suffix == regionSuffixForDex(lastDone.a.dex)
        how == lastDone.how
    IN IF Truthy(suffix) /\ <<"candidate", TRUE>> \in how
         THEN lastDone.res = Entity(def \o <<suffix.v>>)
       ELSE IF <<"default", TRUE>> \in how
         THEN lastDone.res = Entity(def)
       ELSE IF <<"species", TRUE>> \in how
         THEN lastDone.res = Entity(sp)
       ELSE lastDone.res = Null

C7_Witness ==
  /\ DoneSmart
  /\ lastDone.a.dex = DexGalar
  /\ <<"candidate", FALSE>> \in lastDone.how
  /\ lastDone.res = Entity(Raichu)

(***************************************************************************)
(* genSlugToNumber (App.jsx 84-98)                                         *)
(***************************************************************************)
GenerationPrefix == "generation-"

\* String.prototype.replace(piece, ""): the first occurrence is removed.
RemoveFirst(str, piece) ==
  IF \E i \in 1..Len(str) : str[i] = piece
    THEN LET i == CHOOSE i \in 1..Len(str) :
                    str[i] = piece /\ \A j \in 1..(i - 1) : str[j] # piece
         IN SubSeq(str, 1, i - 1) \o SubSeq(str, i + 1, Len(str))
    ELSE str

\* the own keys of the object literal `map`
RomanNumerals ==
  <<  <<"i">>, <<"i", "i">>, <<"i", "i", "i">>, <<"i", "v">>, <<"v">>,
      <<"v", "i">>, <<"v", "i", "i">>, <<"v", "i", "i", "i">>, <<"i", "x">>  >>

\* keys every object literal inherits from Object.prototype
InheritedKeys == {<<"constructor">>}
Inherited(key) == [kind |-> "function", name |-> key]

\* `map[roman]`: an own key, an inherited key, or undefined
RomanLookup(roman) ==
  IF \E n \in 1..Len(RomanNumerals) : RomanNumerals[n] = roman
    THEN Num(CHOOSE n \in 1..Len(RomanNumerals) : RomanNumerals[n] = roman)
  ELSE IF roman \in InheritedKeys THEN Inherited(roman)
  ELSE Undefined

Sentinel == 999

\* `(genSlug || "")`: undefined, null and the empty string give ""
OrEmpty(genSlug) == IF genSlug.kind = "str" THEN genSlug.v ELSE <<>>

\* `x ?? 999`
OrSentinel_Zero(x) == IF x \in {Undefined, Null} THEN Num(0) ELSE x
OrSentinel(x) == IF x \in {Undefined, Null} THEN Num(Sentinel) ELSE x

genSlugToNumber(genSlug) ==
  OrSentinel(RomanLookup(RemoveFirst(OrEmpty(genSlug), GenerationPrefix)))

(***************************************************************************)
(* getVersionGenNumber (App.jsx 100-126) and getVersionGroupGenNumber      *)
(* (App.jsx 132-150).  Both call fetch directly; a response that is not    *)
(* ok still carries a body.                                                *)
(***************************************************************************)
Meta(genNum, versionGroup) == [kind |-> "meta", genNum |-> genNum, versionGroup |-> versionGroup]
Fallback == Meta(Num(Sentinel), <<>>)

\* `vData?.version_group?.name`
VersionGroupName(vData) == IF vData.kind = "version" THEN vData.version_group ELSE Undefined
\* `data?.generation?.name`
GenerationName(data) == IF data.kind = "version-group" THEN data.generation ELSE Undefined

EnterVersionGen(s, v) ==
  IF MapHas(versionGenCache, v)
    THEN Append(s, Settled("getVersionGenNumber", NameVal(v), MapGet(versionGenCache, v)))
    ELSE MarkNet(Append(s, Frame("getVersionGenNumber", "version", NameVal(v))))

\* `versionGenCache.set(versionName, ...)`
VersionMemo(memo, v, meta) == MapSet(memo, v, meta)

\* the catch block, and the `if (!vgName)` branch
VersionFails(t, why) ==
  LET f == [Top(t) EXCEPT !.how = @ \cup {why}] IN
  /\ versionGenCache' = VersionMemo(versionGenCache, f.a.name, Fallback)
  /\ Ret(t, SetTop(stack[t], f), Fallback)

\* resumed from `await fetch(.../version/${versionName})`
VersionResponse(t) ==
  /\ Running(t, "getVersionGenNumber", "version")
  /\ \E res \in NetResponses(Url("version", Top(t).a.name)) :
       IF res = NoResponse
         THEN VersionFails(t, "transport")
         ELSE /\ stack' = [stack EXCEPT ![t] =
                    SetTop(stack[t], [Top(t) EXCEPT !.pc = "versionJson", !.r = res])]
              /\ UNCHANGED <<versionGenCache, first, lastDone>>
  /\ UNCHANGED <<store, dbOk, memVars, versionGroupGenCache, slugVars, appVars, pureVars, contentVars, calls, restarts, viewVars>>

\* resumed from `await vRes.json()`; a version group is named: fetch it
VersionJson(t) ==
  /\ Running(t, "getVersionGenNumber", "versionJson")
  /\ LET f == Top(t)
         vData == f.r.body
         vgName == VersionGroupName(vData)
     IN IF vData = Malformed
          THEN VersionFails(t, "decodefail")
        ELSE IF ~Truthy(vgName)
          THEN VersionFails(t, "nogroup")
        ELSE /\ stack' = [stack EXCEPT ![t] =
                   SetTop(stack[t], [f EXCEPT !.pc = "group", !.b = vgName, !.r = Undefined])]
             /\ UNCHANGED <<versionGenCache, first, lastDone>>
  /\ UNCHANGED <<store, dbOk, memVars, versionGroupGenCache, slugVars, appVars, pureVars, contentVars, calls, restarts, viewVars>>

\* resumed from `await fetch(.../version-group/${vgName})`
VersionGroupResponse(t) ==
  /\ Running(t, "getVersionGenNumber", "group")
  /\ \E res \in NetResponses(Url("version-group", Top(t).b.name)) :
       IF res = NoResponse
         THEN VersionFails(t, "transport")
         ELSE /\ stack' = [stack EXCEPT ![t] =
                    SetTop(stack[t], [Top(t) EXCEPT !.pc = "groupJson", !.r = res])]
              /\ UNCHANGED <<versionGenCache, first, lastDone>>
  /\ UNCHANGED <<store, dbOk, memVars, versionGroupGenCache, slugVars, appVars, pureVars, contentVars, calls, restarts, viewVars>>

\* history: why a generation slug does not resolve
SlugEvents(genSlug) ==
  IF ~Truthy(genSlug) THEN {"nogeneration"}
  ELSE IF RomanLookup(RemoveFirst(OrEmpty(genSlug), GenerationPrefix)) = Undefined
    THEN {"unknownslug"}
  ELSE {}

\* resumed from `await vgRes.json()`
VersionGroupJson(t) ==
  /\ Running(t, "getVersionGenNumber", "groupJson")
  /\ LET f == Top(t)
         vgData == f.r.body
         genSlug == GenerationName(vgData)
         meta == Meta(genSlugToNumber(genSlug), f.b.name)
     IN IF vgData = Malformed
          THEN VersionFails(t, "decodefail")
          ELSE /\ versionGenCache' = VersionMemo(versionGenCache, f.a.name, meta)
               /\ Ret(t, SetTop(stack[t], [f EXCEPT !.how = @ \cup SlugEvents(genSlug)]), meta)
  /\ UNCHANGED <<store, dbOk, memVars, versionGroupGenCache, slugVars, appVars, pureVars, contentVars, calls, restarts, viewVars>>

\* getVersionGroupGenNumber: synchronous prefix
EnterGroupGen(s, g) ==
  IF g = <<>>
    THEN Append(s, Settled("getVersionGroupGenNumber", NameVal(g), Num(Sentinel)))
  ELSE IF MapHas(versionGroupGenCache, g)
    THEN Append(s, Settled("getVersionGroupGenNumber", NameVal(g), MapGet(versionGroupGenCache, g)))
  ELSE MarkNet(Append(s, Frame("getVersionGroupGenNumber", "group", NameVal(g))))

\* `versionGroupGenCache.set(vgName, 999); return 999;`
GroupFails(t, why) ==
  LET f == [Top(t) EXCEPT !.how = @ \cup {why}] IN
  /\ versionGroupGenCache' = MapSet(versionGroupGenCache, f.a.name, Num(Sentinel))
  /\ Ret(t, SetTop(stack[t], f), Num(Sentinel))

\* resumed from `await fetch(.../version-group/${vgName})`
GroupResponse(t) ==
  /\ Running(t, "getVersionGroupGenNumber", "group")
  /\ \E res \in NetResponses(Url("version-group", Top(t).a.name)) :
       IF res = NoResponse
         THEN GroupFails(t, "transport")
       ELSE IF ~res.ok
         THEN GroupFails(t, "notok")
       ELSE /\ stack' = [stack EXCEPT ![t] =
                  SetTop(stack[t], [Top(t) EXCEPT !.pc = "groupJson", !.r = res])]
            /\ UNCHANGED <<versionGroupGenCache, first, lastDone>>
  /\ UNCHANGED <<store, dbOk, memVars, versionGenCache, slugVars, appVars, pureVars, contentVars, calls, restarts, viewVars>>

\* resumed from `await res.json()`
GroupJson(t) ==
  /\ Running(t, "getVersionGroupGenNumber", "groupJson")
  /\ LET f == Top(t)
         data == f.r.body
         genSlug == GenerationName(data)
         genNum == genSlugToNumber(genSlug)
     IN IF data = Malformed
          THEN GroupFails(t, "decodefail")
          ELSE /\ versionGroupGenCache' = MapSet(versionGroupGenCache, f.a.name, genNum)
               /\ Ret(t, SetTop(stack[t], [f EXCEPT !.how = @ \cup SlugEvents(genSlug)]), genNum)
  /\ UNCHANGED <<store, dbOk, memVars, versionGenCache, slugVars, appVars, pureVars, contentVars, calls, restarts, viewVars>>

(***************************************************************************)
(* Specification of the generation resolvers: the detail view resolves the *)
(* versions of the dex entries and the version groups of the moves.        *)
(***************************************************************************)
GenVersions == {Red, Odd, Beta, Ghost}
GenGroups == {RedBlue, NoGenGroup, LostGroup, <<>>}

CallVersionGen(t) ==
  /\ FreeSlot(t)
  /\ calls < MaxGenCalls
  /\ \E v \in GenVersions : stack' = [stack EXCEPT ![t] = EnterVersionGen(<<>>, v)]
  /\ calls' = calls + 1
  /\ UNCHANGED <<store, dbOk, memVars, genVars, slugVars, appVars, pureVars, contentVars, restarts, first, lastDone, viewVars>>

CallGroupGen(t) ==
  /\ FreeSlot(t)
  /\ calls < MaxGenCalls
  /\ \E g \in GenGroups : stack' = [stack EXCEPT ![t] = EnterGroupGen(<<>>, g)]
  /\ calls' = calls + 1
  /\ UNCHANGED <<store, dbOk, memVars, genVars, slugVars, appVars, pureVars, contentVars, restarts, first, lastDone, viewVars>>

NextGen ==
  \/ \E t \in Tasks : CallVersionGen(t)
  \/ \E t \in Tasks : CallGroupGen(t)
  \/ \E t \in Tasks : VersionResponse(t)
  \/ \E t \in Tasks : VersionJson(t)
  \/ \E t \in Tasks : VersionGroupResponse(t)
  \/ \E t \in Tasks : VersionGroupJson(t)
  \/ \E t \in Tasks : GroupResponse(t)
  \/ \E t \in Tasks : GroupJson(t)
  \/ \E t \in Tasks : Deliver(t)

SpecGen == InitCommon /\ [][NextGen]_vars

DoneVersionGen == lastDone.fn = "getVersionGenNumber"
DoneGroupGen == lastDone.fn = "getVersionGroupGenNumber"

\* the generation number a completed call returned
GenNumOf(res) == IF res.kind = "meta" THEN res.genNum ELSE res

Failures == {"transport", "notok", "decodefail", "nogroup", "nogeneration", "unknownslug"}

\* names the API cannot resolve to a generation, whatever the network does
UnresolvableVersions == {Odd, Beta, Ghost}
UnresolvableGroups == {NoGenGroup, LostGroup, BetaGroup}

C9_GenerationMemoized ==
  ((DoneVersionGen \/ DoneGroupGen) /\ lastDone.a.name # <<>> /\ lastDone.snap # Undefined) =>
     /\ ~lastDone.net
     /\ lastDone.res = lastDone.snap

(***************************************************************************)
(* Specification of genSlugToNumber as a function: the argument is any     *)
(* string made of the pieces below, or undefined, or null.                 *)
(***************************************************************************)
SlugPieces == {GenerationPrefix, "i", "v", "x", "constructor"}
SlugStrings == UNION {[1..n -> SlugPieces] : n \in 0..MaxSlugLen}
SlugInputs == {Slug(str) : str \in SlugStrings} \cup {Undefined, Null}

InitSlug ==
  /\ InitBase
  /\ slugIn \in SlugInputs
  /\ slugOut = Undefined
  /\ input = Undefined
  /\ output = Undefined

ApplyGenSlug ==
  /\ slugOut = Undefined
  /\ slugOut' = genSlugToNumber(slugIn)
  /\ UNCHANGED <<store, dbOk, stack, memVars, genVars, slugIn, appVars, pureVars, contentVars, calls, restarts, first, lastDone, viewVars>>

NextSlug == ApplyGenSlug

SpecSlug == InitSlug /\ [][NextSlug]_vars

\* the slug "generation-<numeral>" of generation n
GenerationSlug(n) == Slug(<<GenerationPrefix>> \o RomanNumerals[n])

(***************************************************************************)
(* C10: genSlugToNumber maps the generation slugs with the numerals i, ii, *)
(* iii, iv, v, vi, vii, viii, ix to 1..9 respectively and every other      *)
(* input (missing, empty, any other string) to 999.                        *)
(***************************************************************************)
C10_SlugToNumber ==
  slugOut # Undefined =>
    IF \E n \in 1..9 : slugIn = GenerationSlug(n)
      THEN slugOut = Num(CHOOSE n \in 1..9 : slugIn = GenerationSlug(n))
      ELSE slugOut = Num(999)

\* the part of C10 that the code satisfies: the nine slugs, and the missing
\* and empty inputs
C10_KnownSlugs ==
  slugOut # Undefined =>
    /\ \A n \in 1..9 : slugIn = GenerationSlug(n) => slugOut = Num(n)
    /\ slugIn \in {Undefined, Null, Slug(<<>>)} => slugOut = Num(999)

(***************************************************************************)
(* Variant / form catalog of the detail view (App.jsx 45-51, 223-247,      *)
(* 1103-1143).  A label is the sequence of its space-separated words, a    *)
(* capitalised word being Cap of its lower-case spelling: "Mega X" is      *)
(* <<Cap("mega"), Cap("x")>>.                                              *)
(***************************************************************************)
\* String.prototype.includes("-" + w) on a hyphenated name: w follows a
\* hyphen.
IncludesSuffix(name, w) == \E i \in 2..Len(name) : name[i] = w

isRegionalVariant(pokemonName) ==
  \/ IncludesSuffix(pokemonName, "alola")
  \/ IncludesSuffix(pokemonName, "galar")
  \/ IncludesSuffix(pokemonName, "hisui")
  \/ IncludesSuffix(pokemonName, "paldea")

isMega(pokemonName) == IncludesSuffix(pokemonName, "mega")
isGmax(pokemonName) == IncludesSuffix(pokemonName, "gmax")

\* w[0].toUpperCase() + w.slice(1)
Cap(w) == [cap |-> w]

\* split("-"), capitalise each word, join(" ")
titleCaseSlug(v) == [i \in 1..Len(v) |-> Cap(v[i])]

\* pokemonName.startsWith(baseName + "-")
StartsWithBase(baseName, pokemonName) ==
  /\ Len(pokemonName) > Len(baseName)
  /\ SubSeq(pokemonName, 1, Len(baseName)) = baseName

\* The replacements of "mega-x" by "Mega X" and of "mega-y" by "Mega Y"
\* produce the words that titleCaseSlug produces without them.
prettyLabel(baseName, pokemonName) ==
  IF pokemonName = baseName THEN <<Cap("base")>>
  ELSE LET tail == IF StartsWithBase(baseName, pokemonName)
                     THEN SubSeq(pokemonName, Len(baseName) + 1, Len(pokemonName))
                     ELSE pokemonName
       IN IF tail = <<"gmax">> THEN <<Cap("gigantamax")>>
          ELSE IF tail = <<"mega">> THEN <<Cap("mega")>>
          ELSE titleCaseSlug(tail)

Option(label, pokemonName) == [label |-> label, pokemonName |-> pokemonName]

\* The words labels are made of (all capitalised), in alphabetical order.
LabelWords ==
  <<"alola", "attack", "base", "deoxys", "galar", "gigantamax", "gmax", "hisui",
    "mega", "missingno", "normal", "paldea", "raichu", "x", "y">>

WordRank(w) == CHOOSE i \in 1..Len(LabelWords) : LabelWords[i] = w.cap

\* a.localeCompare(b) < 0 on two labels: the first differing word decides, a
\* proper prefix comes first.
LocaleBefore(a, b) ==
  \E i \in 1..(Len(a) + 1) :
    /\ \A j \in 1..(i - 1) : j <= Len(b) /\ a[j] = b[j]
    /\ i <= Len(b)
    /\ (i <= Len(a) => WordRank(a[i]) < WordRank(b[i]))

\* Array.prototype.sort with a comparator, given as "x goes before y"; the
\* sort is stable.
SortBy(s, Before(_, _)) ==
  LET rank(i) == Cardinality({j \in 1..Len(s) :
                     \/ Before(s[j], s[i])
                     \/ (~Before(s[i], s[j]) /\ j < i)}) + 1
  IN [k \in 1..Len(s) |-> s[CHOOSE i \in 1..Len(s) : rank(i) = k]]

\* comparator of the variant bucket: the base entry, then the non-regional
\* entries, then by label
VariantBefore_ByLabel(baseName, x, y) == LocaleBefore(x.label, y.label)
VariantBefore(baseName, x, y) ==
  IF x.pokemonName = baseName /\ y.pokemonName # baseName THEN TRUE
  ELSE IF y.pokemonName = baseName /\ x.pokemonName # baseName THEN FALSE
  ELSE IF isRegionalVariant(x.pokemonName) # isRegionalVariant(y.pokemonName)
    THEN isRegionalVariant(y.pokemonName)
  ELSE LocaleBefore(x.label, y.label)

LabelBefore(x, y) == LocaleBefore(x.label, y.label)

Filter(s, Keep(_)) ==
  LET idx == {i \in 1..Len(s) : Keep(s[i])}
      nth(k) == CHOOSE i \in idx : Cardinality({j \in idx : j < i}) = k - 1
  IN [k \in 1..Cardinality(idx) |-> s[nth(k)]]

\* The four buckets built from the candidates whose probe answered true, in
\* candidate order.
Buckets(baseName, found) ==
  LET opts == [i \in 1..Len(found) |-> Option(prettyLabel(baseName, found[i]), found[i])]
      IsVariant(o) == o.pokemonName = baseName \/ isRegionalVariant(o.pokemonName)
      IsMegaOpt(o) == ~IsVariant(o) /\ isMega(o.pokemonName)
      IsGmaxOpt(o) == ~IsVariant(o) /\ ~isMega(o.pokemonName) /\ isGmax(o.pokemonName)
      IsOther(o) == ~IsVariant(o) /\ ~isMega(o.pokemonName) /\ ~isGmax(o.pokemonName)
      pushed == Filter(opts, IsVariant)
      variants == IF \E i \in 1..Len(pushed) : pushed[i].pokemonName = baseName
                    THEN pushed
                    ELSE <<Option(<<Cap("base")>>, baseName)>> \o pushed
      VBefore(x, y) == VariantBefore(baseName, x, y)
  IN [variants |-> SortBy(variants, VBefore),
      megas |-> SortBy(Filter(opts, IsMegaOpt), LabelBefore),
      gmax |-> SortBy(Filter(opts, IsGmaxOpt), LabelBefore),
      others |-> SortBy(Filter(opts, IsOther), LabelBefore)]

\* Array.from(new Set([...varietiesRaw, ...formNamesRaw]))
Unique(s) ==
  LET IsFirst(i) == \A j \in 1..(i - 1) : s[j] # s[i]
      idx == {i \in 1..Len(s) : IsFirst(i)}
      nth(k) == CHOOSE i \in idx : Cardinality({j \in idx : j < i}) = k - 1
  IN [k \in 1..Cardinality(idx) |-> s[nth(k)]]

AllCandidates(sData, basePoke) ==
  LET varietiesRaw == [i \in 1..Len(sData.varieties) |-> sData.varieties[i].pokemon]
      formNamesRaw == IF Truthy(basePoke) THEN basePoke.forms ELSE <<>>
  IN Unique(varietiesRaw \o formNamesRaw)

(***************************************************************************)
(* Detail view (DetailsModal, App.jsx 934-1211): the effect on             *)
(* [speciesName, dexKey], its cleanup, and the chains it starts: load, the *)
(* variant / form chain and the evolution chain.  The species served by    *)
(* the API of this model carry no flavor text and no evolution chain url,  *)
(* so Promise.all waits on the empty list and the evolution chain ends on  *)
(* its first branch.  The view's other effects are outside this model.     *)
(***************************************************************************)
ViewArg(sp, dex, eff, inst) ==
  [kind |-> "view", name |-> sp, dex |-> dex, eff |-> eff, inst |-> inst]

\* The state of a DetailsModal instance after the resets at the head of the
\* effect (they equal the useState initial values).
Mounted(sp, dex, eff, inst) ==
  [kind |-> "modal", inst |-> inst, eff |-> eff, speciesName |-> sp, dexKey |-> dex,
   loading |-> TRUE, species |-> Null, pokemon |-> Null,
   entryMap |-> EmptyMap, entryVersion |-> <<>>, orderedVersions |-> <<>>,
   vfLoading |-> TRUE, variantOptions |-> <<>>, megaOptions |-> <<>>,
   gmaxOptions |-> <<>>, otherFormOptions |-> <<>>,
   selectedVariant |-> sp, selectedForm |-> <<>>, evoLoading |-> TRUE]

NoUpdate == [k \in {} |-> Undefined]
Merge(r, upd) == [k \in DOMAIN r \cup DOMAIN upd |-> IF k \in DOMAIN upd THEN upd[k] ELSE r[k]]

\* `if (!alive) return;` in the closure of effect run a.eff
Alive(a) == alive[a.eff]

\* The chain of effect run a.eff calls the state setters of its component
\* instance with the values of upd; React drops the calls when that instance
\* is unmounted.
Commit(a, upd) ==
  IF modal # Closed /\ modal.inst = a.inst /\ DOMAIN upd # {}
    THEN /\ modal' = Merge(modal, upd)
         /\ commit' = [eff |-> a.eff, alive |-> alive[a.eff], fields |-> DOMAIN upd]
    ELSE UNCHANGED <<modal, commit>>

\* The effect runs: the cleanup of the previous run (if any) clears its
\* flag, the state is reset, load() starts and reaches its first await.
StartEffect(t, sp, dex, inst) ==
  LET eff == Len(alive) + 1 IN
  /\ modal' = Mounted(sp, dex, eff, inst)
  /\ alive' = Append(IF modal = Closed THEN alive ELSE [alive EXCEPT ![modal.eff] = FALSE], TRUE)
  /\ stack' = [stack EXCEPT ![t] =
       EnterFetch(<<Frame("DetailsModal.load", "species", ViewArg(sp, dex, eff, inst))>>,
                  Url("pokemon-species", sp))]

ViewSpecies == {Raichu}
ViewDexes == {DexNational, DexAlola, DexGalar}

\* a card is opened: setOpenSpecies(p.species) mounts the view
OpenSpecies(t) ==
  /\ modal = Closed
  /\ FreeSlot(t)
  /\ Len(alive) < MaxEffects
  /\ \E sp \in ViewSpecies, dex \in ViewDexes : StartEffect(t, sp, dex, Len(alive) + 1)
  /\ UNCHANGED <<store, dbOk, memVars, genVars, slugVars, appVars, pureVars, contentVars, calls, restarts, first, lastDone, commit>>

\* a dex tab is activated while the view is open: dexKey changes, the effect
\* runs again on the same instance
SelectDex(t) ==
  /\ modal # Closed
  /\ FreeSlot(t)
  /\ Len(alive) < MaxEffects
  /\ \E dex \in ViewDexes \ {modal.dexKey} :
       StartEffect(t, modal.speciesName, dex, modal.inst)
  /\ UNCHANGED <<store, dbOk, memVars, genVars, slugVars, appVars, pureVars, contentVars, calls, restarts, first, lastDone, commit>>

\* onClose: setOpenSpecies(null) unmounts the view, the cleanup runs
CloseModal ==
  /\ modal # Closed
  /\ alive' = [alive EXCEPT ![modal.eff] = FALSE]
  /\ modal' = Closed
  /\ UNCHANGED <<store, dbOk, stack, memVars, genVars, slugVars, appVars, pureVars, contentVars, calls, restarts, first,
                 lastDone, commit>>

\* load() leaves through catch / finally: `if (!alive) return; setLoading(false)`
LoadFailed(t, a) ==
  /\ stack' = [stack EXCEPT ![t] = <<>>]
  /\ IF Alive(a) THEN Commit(a, [loading |-> FALSE]) ELSE UNCHANGED <<modal, commit>>

\* load() leaves through `if (!alive) return;` and the finally block
LoadDropped(t) ==
  /\ stack' = [stack EXCEPT ![t] = <<>>]
  /\ UNCHANGED <<modal, commit>>

\* The variant / form chain behind its candidate loop: the catalog is built
\* and, when the flag allows, committed; under a regional dex the chain then
\* awaits the probe of `${baseName}-${suffix}`, else it commits the default
\* variant at once.  frames: what is left of the chain; upd: what it commits.
VariantsAfterLoop(vf) ==
  LET base == vf.b.baseName
      cat == Buckets(base, vf.b.found)
      options == [variantOptions |-> cat.variants, megaOptions |-> cat.megas,
                  gmaxOptions |-> cat.gmax, otherFormOptions |-> cat.others]
      suffix == regionSuffixForDex(vf.a.dex)
  IN IF ~Alive(vf.a) THEN [frames |-> <<>>, upd |-> NoUpdate]
     ELSE IF Truthy(suffix)
       THEN [frames |-> EnterExists(<<[vf EXCEPT !.pc = "regional"]>>, Candidate(base, suffix)),
             upd |-> options]
     ELSE [frames |-> <<>>,
           upd |-> Merge(options, [selectedVariant |-> base, selectedForm |-> <<>>,
                                   vfLoading |-> FALSE])]

\* The variant / form chain from its start to its first await.
VariantsStart(a, sData, baseName, basePoke) ==
  LET cands == AllCandidates(sData, basePoke)
      vf == [Frame("DetailsModal.variants", "probe", a) EXCEPT
               !.b = [baseName |-> baseName, cands |-> cands, i |-> 1, found |-> <<>>]]
  IN IF cands # <<>>
       THEN [frames |-> EnterExists(<<vf>>, cands[1]), upd |-> NoUpdate]
       ELSE VariantsAfterLoop(vf)

\* load() as it would run if the candidate loop began behind the species
\* fetch
LoadSpecies_Probing(t) ==
  /\ Running(t, "DetailsModal.load", "species")
  /\ LET f == Top(t)
         sData == f.r
     IN IF sData = Thrown \/ ~Truthy(sData) THEN LoadFailed(t, f.a)
        ELSE /\ stack' = [stack EXCEPT ![t] =
                  VariantsStart(f.a, sData, DefaultVariety(sData, f.a.name), Null).frames]
             /\ Commit(f.a, VariantsStart(f.a, sData, DefaultVariety(sData, f.a.name), Null).upd)
  /\ UNCHANGED <<store, dbOk, memVars, genVars, slugVars, appVars, pureVars, contentVars, calls, restarts, first, lastDone, alive>>
\* load() resumed from `await fetchJsonOrNull(.../pokemon-species/...)`
LoadSpecies(t) ==
  /\ Running(t, "DetailsModal.load", "species")
  /\ LET f == Top(t)
         sData == f.r
     IN IF sData = Thrown \/ ~Truthy(sData) THEN LoadFailed(t, f.a)
        ELSE IF ~Alive(f.a) THEN LoadDropped(t)
        ELSE /\ Commit(f.a, [species |-> sData])
             /\ stack' = [stack EXCEPT ![t] =
                  <<[f EXCEPT !.pc = "metas",
                              !.b = [sData |-> sData,
                                     baseName |-> DefaultVariety(sData, f.a.name)]]>>]
  /\ UNCHANGED <<store, dbOk, memVars, genVars, slugVars, appVars, pureVars, contentVars, calls, restarts, first, lastDone, alive>>

\* load() resumed from `await Promise.all(...)`
LoadMetas(t) ==
  /\ Running(t, "DetailsModal.load", "metas")
  /\ LET f == Top(t) IN
     IF ~Alive(f.a) THEN LoadDropped(t)
     ELSE /\ Commit(f.a, [entryMap |-> EmptyMap, orderedVersions |-> <<>>, entryVersion |-> <<>>])
          /\ stack' = [stack EXCEPT ![t] =
               EnterFetch(<<[f EXCEPT !.pc = "basePoke"]>>, Url("pokemon", f.b.baseName))]
  /\ UNCHANGED <<store, dbOk, memVars, genVars, slugVars, appVars, pureVars, contentVars, calls, restarts, first, lastDone, alive>>

\* The evolution chain of a species without evolution_chain.url:
\* `if (!alive) return; setEvoLoading(false); return;`
EvolutionStart(a, sData) ==
  IF Alive(a) THEN [evoLoading |-> FALSE] ELSE NoUpdate

\* load() resumed from `await fetchJsonOrNull(.../pokemon/${baseName})`: it
\* starts the variant / form chain and the evolution chain, then runs to
\* its end.
LoadBasePoke(t) ==
  /\ Running(t, "DetailsModal.load", "basePoke")
  /\ LET f == Top(t)
         basePoke == f.r
         baseName == f.b.baseName
     IN IF basePoke = Thrown
          THEN LoadFailed(t, f.a) /\ UNCHANGED pokemonCache
        ELSE LET vf == VariantsStart(f.a, f.b.sData, baseName, basePoke)
                 evo == EvolutionStart(f.a, f.b.sData)
                 tail == IF Alive(f.a) THEN [pokemon |-> basePoke, loading |-> FALSE]
                         ELSE NoUpdate
             IN /\ pokemonCache' = IF Truthy(basePoke)
                                     THEN MapSet(pokemonCache, baseName, basePoke)
                                     ELSE pokemonCache
                /\ stack' = [stack EXCEPT ![t] = vf.frames]
                /\ Commit(f.a, Merge(Merge(vf.upd, evo), tail))
  /\ UNCHANGED <<store, dbOk, pokemonExistsCache, speciesDefaultPokemonCache, genVars,
                 slugVars, appVars, pureVars, contentVars, calls, restarts, first, lastDone, alive>>

\* the catch block of the variant / form chain: `if (!alive) return; setVfLoading(false)`
VariantsFailed(t, a) ==
  /\ stack' = [stack EXCEPT ![t] = <<>>]
  /\ IF Alive(a) THEN Commit(a, [vfLoading |-> FALSE]) ELSE UNCHANGED <<modal, commit>>

\* the variant / form chain resumed from `await pokemonExists(pnm)`
VariantProbe(t) ==
  /\ Running(t, "DetailsModal.variants", "probe")
  /\ LET f == Top(t) IN
     IF f.r = Thrown THEN VariantsFailed(t, f.a)
     ELSE LET pnm == f.b.cands[f.b.i]
              found == IF Exists(f.r) THEN Append(f.b.found, pnm) ELSE f.b.found
              g == [f EXCEPT !.b.found = found, !.b.i = f.b.i + 1]
          IN IF f.b.i < Len(f.b.cands)
               THEN /\ stack' = [stack EXCEPT ![t] = EnterExists(<<g>>, f.b.cands[f.b.i + 1])]
                    /\ UNCHANGED <<modal, commit>>
               ELSE /\ stack' = [stack EXCEPT ![t] = VariantsAfterLoop(g).frames]
                    /\ Commit(f.a, VariantsAfterLoop(g).upd)
  /\ UNCHANGED <<store, dbOk, memVars, genVars, slugVars, appVars, pureVars, contentVars, calls, restarts, first, lastDone, alive>>

\* the variant / form chain resumed from `await pokemonExists(cand)`:
\* `setSelectedVariant(defaultVariant); setSelectedForm(""); setVfLoading(false);`
VariantRegional(t) ==
  /\ Running(t, "DetailsModal.variants", "regional")
  /\ LET f == Top(t)
         cand == Candidate(f.b.baseName, regionSuffixForDex(f.a.dex))
         defaultVariant == IF Exists(f.r) THEN cand ELSE f.b.baseName
     IN IF f.r = Thrown THEN VariantsFailed(t, f.a)
        ELSE /\ stack' = [stack EXCEPT ![t] = <<>>]
             /\ Commit(f.a, [selectedVariant |-> defaultVariant, selectedForm |-> <<>>,
                             vfLoading |-> FALSE])
  /\ UNCHANGED <<store, dbOk, memVars, genVars, slugVars, appVars, pureVars, contentVars, calls, restarts, first, lastDone, alive>>

(***************************************************************************)
(* Specification of the detail view: it is opened, its dex changes while   *)
(* it is open, it is closed, and its chains run in between.                *)
(***************************************************************************)
NextView ==
  \/ \E t \in Tasks : OpenSpecies(t)
  \/ \E t \in Tasks : SelectDex(t)
  \/ CloseModal
  \/ \E t \in Tasks : LoadSpecies(t)
  \/ \E t \in Tasks : LoadMetas(t)
  \/ \E t \in Tasks : LoadBasePoke(t)
  \/ \E t \in Tasks : VariantProbe(t)
  \/ \E t \in Tasks : VariantRegional(t)
  \/ \E t \in Tasks : ExistsFetched(t)
  \/ \E t \in Tasks : Deliver(t)
  \/ \E t \in Tasks : FetchGet(t)
  \/ \E t \in Tasks : FetchNet(t)
  \/ \E t \in Tasks : FetchJson(t)
  \/ \E t \in Tasks : FetchPut(t)

SpecView == InitCommon /\ [][NextView]_vars

(***************************************************************************)
(* C6: after the liveness flag of a UI context has been set false, no      *)
(* chain started under that context writes into view state: every commit   *)
(* is made by a chain whose flag is still true.                            *)
(***************************************************************************)
C6_NoStaleCommit == commit.alive

\* the part of C6 that the detail view satisfies: the only commit made under
\* a false flag is the one behind `await pokemonExists(cand)`
C6_OnlyRegionalDefault ==
  commit.alive \/ commit.fields = {"selectedVariant", "selectedForm", "vfLoading"}

(***************************************************************************)
(* Specification of the catalog alone: the candidate loop of the variant / *)
(* form chain (App.jsx 1111-1143) run on a base name, a candidate list     *)
(* without repetition and the answers of the existence probes.             *)
(***************************************************************************)
\* a base name, regional variants, megas, a gigantamax form, a name with two
\* tokens, and forms of another species
CandidateNames ==
  {Raichu, RaichuAlola, <<"raichu", "galar">>, <<"raichu", "mega", "x">>,
   <<"raichu", "mega", "y">>, <<"raichu", "gmax">>, <<"raichu", "galar", "mega">>,
   DeoxysNormal, <<"deoxys", "attack">>}
BaseNames == {Raichu, RaichuAlola, DeoxysNormal}

Range(s) == {s[i] : i \in 1..Len(s)}

\* the sequences without repetition of at most n elements of S
DistinctSeqs(S, n) ==
  {s \in UNION {[1..k -> S] : k \in 0..n} :
     \A i, j \in 1..Len(s) : i # j => s[i] # s[j]}

CatalogInputs ==
  UNION {{[kind |-> "catalog", baseName |-> b, cands |-> c, oks |-> o] :
            b \in BaseNames, o \in SUBSET Range(c)} :
         c \in DistinctSeqs(CandidateNames, MaxCands)}

\* `const ok = await pokemonExists(pnm); if (!ok) continue;`
Found(cands, oks) ==
  LET Ok(n) == n \in oks IN Filter(cands, Ok)

InitCatalog ==
  /\ InitBase
  /\ slugIn = Undefined
  /\ slugOut = Undefined
  /\ input \in CatalogInputs
  /\ output = Undefined

ApplyCatalog ==
  /\ input.kind = "catalog"
  /\ output = Undefined
  /\ output' = Buckets(input.baseName, Found(input.cands, input.oks))
  /\ UNCHANGED <<store, dbOk, stack, memVars, genVars, slugVars, appVars, input, contentVars, calls,
                 restarts,
                 first, lastDone, viewVars>>

NextCatalog == ApplyCatalog

SpecCatalog == InitCatalog /\ [][NextCatalog]_vars

\* the names offered by a bucket
Names(bucket) == {bucket[i].pokemonName : i \in 1..Len(bucket)}
CatalogBuilt == input.kind = "catalog" /\ output # Undefined

(***************************************************************************)
(* C11: in every catalog the variant bucket holds the base entry exactly   *)
(* once, at index 0, and no entry with a regional token comes before an    *)
(* entry without one.                                                      *)
(***************************************************************************)
C11_VariantOrdering ==
  CatalogBuilt =>
    LET v == output.variants IN
    /\ Len(v) >= 1
    /\ v[1].pokemonName = input.baseName
    /\ Cardinality({i \in 1..Len(v) : v[i].pokemonName = input.baseName}) = 1
    /\ \A i, j \in 1..Len(v) :
         (i < j /\ isRegionalVariant(v[i].pokemonName)) => isRegionalVariant(v[j].pokemonName)

\* two regional entries behind a base entry that no probe confirmed
C11_Witness ==
  /\ CatalogBuilt
  /\ input.baseName = Raichu
  /\ Raichu \notin input.oks
  /\ Len(output.variants) = 3

\* the bucket the classification rules give a name
RuleBucket(baseName, n) ==
  IF n = baseName \/ isRegionalVariant(n) THEN "variants"
  ELSE IF isMega(n) THEN "megas"
  ELSE IF isGmax(n) THEN "gmax"
  ELSE "others"

BucketKeys == {"variants", "megas", "gmax", "others"}

\* how many entries of a bucket carry the name
Occurrences(bucket, n) == Cardinality({i \in 1..Len(bucket) : bucket[i].pokemonName = n})

(***************************************************************************)
(* C12: every candidate whose probe succeeded is in exactly one bucket,    *)
(* the one of the first matching rule (base or regional token: variant;    *)
(* -mega: mega; -gmax: gigantamax; else other), and a candidate whose      *)
(* probe failed is in no bucket.                                           *)
(***************************************************************************)
C12_Classification ==
  CatalogBuilt =>
    \A n \in Range(input.cands) : \A k \in BucketKeys :
      Occurrences(output[k], n) =
        (IF n \in input.oks /\ k = RuleBucket(input.baseName, n) THEN 1 ELSE 0)

\* the part of C12 that the code satisfies: the candidates other than the
\* base name
C12_ExceptBase ==
  CatalogBuilt =>
    \A n \in Range(input.cands) \ {input.baseName} : \A k \in BucketKeys :
      Occurrences(output[k], n) =
        (IF n \in input.oks /\ k = RuleBucket(input.baseName, n) THEN 1 ELSE 0)

(***************************************************************************)
(* C13: every entry of every bucket names a pokemon for which the          *)
(* existence probe returned true.                                          *)
(***************************************************************************)
C13_OnlyProbedNames ==
  CatalogBuilt => \A k \in BucketKeys : Names(output[k]) \subseteq input.oks

(***************************************************************************)
(* buildMoves (App.jsx 1266-1345) as a function of the pokemon's moves,    *)
(* the generation filter, the search text and, per version-group detail,   *)
(* the generation number getVersionGroupGenNumber answered in this pass    *)
(* (__genNum).  Move names are single words.                               *)
(***************************************************************************)
\* x ?? y
Nullish(x) == x \in {Undefined, Null}
OrElse(x, y) == IF Nullish(x) THEN y ELSE x

Detail(method, level, vg, genNum) ==
  [move_learn_method |-> method, level_learned_at |-> level, version_group |-> vg,
   genNum |-> genNum]

GoldSilver == <<"gold", "silver">>

\* the version-group details of the payloads of this model
DetailKinds ==
  {Detail(NameVal("level-up"), Num(7), NameVal(RedBlue), 1),
   Detail(NameVal("level-up"), Num(12), NameVal(RedBlue), 1),
   Detail(NameVal("level-up"), Num(7), NameVal(GoldSilver), 2),
   Detail(NameVal("level-up"), Null, NameVal(RedBlue), 1),
   Detail(NameVal("machine"), Num(0), NameVal(RedBlue), 1),
   Detail(NameVal("machine"), Num(0), NameVal(GoldSilver), 2),
   Detail(NameVal("machine"), Num(0), NameVal(LostGroup), 999),
   Detail(NameVal("tutor"), Num(0), NameVal(RedBlue), 1),
   Detail(NameVal("egg"), Num(0), NameVal(RedBlue), 1),
   Detail(NameVal("form-change"), Num(0), NameVal(RedBlue), 1),
   Detail(Undefined, Undefined, Undefined, 999)}

MoveNames == {"growl", "tackle"}

\* move names in alphabetical order (localeCompare)
MoveOrder == <<"growl", "tackle">>
NameBefore(a, b) ==
  (CHOOSE i \in 1..Len(MoveOrder) : MoveOrder[i] = a)
    < (CHOOSE i \in 1..Len(MoveOrder) : MoveOrder[i] = b)

\* moveSearch.trim().toLowerCase()
TrimLower(moveSearch) == IF moveSearch = " Row " THEN "row" ELSE moveSearch

\* moveName.includes(q): "row" occurs in growl only
NameIncludes_Any(moveName, q) == TRUE
NameIncludes(moveName, q) == q = "" \/ (q = "row" /\ moveName = "growl")

\* Number(moveGen) on the values of the generation selector
Digits == <<"1", "2", "3", "4", "5", "6", "7", "8", "9">>
GenWanted(moveGen) ==
  IF moveGen = "all" THEN Null ELSE Num(CHOOSE n \in 1..9 : Digits[n] = moveGen)

\* the details of a move that pass the generation filter, in payload order
Matching_All(details, genWanted) == details
Matching(details, genWanted) ==
  LET Wanted(d) == d.genNum = genWanted.v
  IN IF genWanted = Null THEN details ELSE Filter(details, Wanted)

IsLevelUp(d) == d.move_learn_method = NameVal("level-up")
LevelOf(d) == OrElse(d.level_learned_at, Num(999)).v

\* "pick best": the loop over matching, from index i on
RECURSIVE PickFrom(_, _, _)
PickFrom(matching, i, best) ==
  IF i > Len(matching) THEN best
  ELSE LET d == matching[i]
           next == IF ~IsLevelUp(d) THEN best
                   ELSE IF ~IsLevelUp(best) THEN d
                   ELSE IF LevelOf(d) < LevelOf(best) THEN d
                   ELSE best
       IN PickFrom(matching, i + 1, next)

PickBest(matching) == PickFrom(matching, 1, matching[1])

MoveBuckets == {"level-up", "machine", "tutor", "egg", "other"}

\* `best.move_learn_method?.name || "other"` and the chain of conditionals
BucketOf_Method(best) ==
  IF best.move_learn_method = Undefined THEN "other" ELSE best.move_learn_method.name
BucketOf(best) ==
  LET method == IF best.move_learn_method = Undefined THEN "other"
                ELSE best.move_learn_method.name
  IN IF method \in {"level-up", "machine", "tutor", "egg"} THEN method ELSE "other"

\* the record pushed for a move
Learned(moveName, best) ==
  [name |-> moveName, level |-> OrElse(best.level_learned_at, Null),
   vg |-> IF best.version_group = Undefined THEN <<>> ELSE best.version_group.name]

\* comparator of the level-up bucket, and of the other buckets
LevelBefore_ByName(a, b) == NameBefore(a.name, b.name)
LevelBefore(a, b) ==
  LET la == OrElse(a.level, Num(999)).v
      lb == OrElse(b.level, Num(999)).v
  IN IF la # lb THEN la < lb ELSE NameBefore(a.name, b.name)
ByName(a, b) == NameBefore(a.name, b.name)

\* buildMoves: out, and as history the representative detail of every
\* listed move
buildMoves(moves, moveGen, moveSearch) ==
  LET q == TrimLower(moveSearch)
      genWanted == GenWanted(moveGen)
      Listed(m) == /\ NameIncludes(m.name, q)
                   /\ Matching(m.details, genWanted) # <<>>
      listed == Filter(moves, Listed)
      best == [i \in 1..Len(listed) |-> PickBest(Matching(listed[i].details, genWanted))]
      pushed == [i \in 1..Len(listed) |->
                   [bucket |-> BucketOf(best[i]), rec |-> Learned(listed[i].name, best[i])]]
      In(k) == LET Here(p) == p.bucket = k
                   ps == Filter(pushed, Here)
               IN [i \in 1..Len(ps) |-> ps[i].rec]
  IN [kind |-> "moves",
      out |-> [k \in MoveBuckets |->
                 IF k = "level-up" THEN SortBy(In(k), LevelBefore) ELSE SortBy(In(k), ByName)],
      best |-> [n \in {listed[i].name : i \in 1..Len(listed)} |->
                  best[CHOOSE i \in 1..Len(listed) : listed[i].name = n]]]

\* Payloads: rows (move, detail) in payload order, at most MaxRows of them;
\* the rows of one move are adjacent, and a row without a detail stands for
\* a move whose version_group_details is empty.
MoveRows ==
  UNION {[1..n -> [name : MoveNames, detail : DetailKinds \cup {Undefined}]] : n \in 0..MaxRows}

WellFormedRows(rows) ==
  /\ \A i, j, k \in 1..Len(rows) :
       (i < j /\ j < k /\ rows[i].name = rows[k].name) => rows[j].name = rows[i].name
  /\ \A i, j \in 1..Len(rows) :
       (i # j /\ rows[i].name = rows[j].name)
         => (rows[i].detail # Undefined /\ rows[j].detail # Undefined)

\* pokemon.moves of a payload given by its rows
MovesOf(rows) ==
  LET First(i) == i = 1 \/ rows[i - 1].name # rows[i].name
      firsts == {i \in 1..Len(rows) : First(i)}
      Nth(k) == CHOOSE i \in firsts : Cardinality({j \in firsts : j <= i}) = k
      DetailsOf(n) ==
        LET Mine(r) == r.name = n /\ r.detail # Undefined
            rs == Filter(rows, Mine)
        IN [i \in 1..Len(rs) |-> rs[i].detail]
  IN [k \in 1..Cardinality(firsts) |->
        [name |-> rows[Nth(k)].name, details |-> DetailsOf(rows[Nth(k)].name)]]

MoveGens == {"all", "1"}
MoveSearches == {"", " Row "}

MovesInputs ==
  {[kind |-> "moves", moves |-> MovesOf(rows), moveGen |-> g, moveSearch |-> s] :
     rows \in {r \in MoveRows : WellFormedRows(r)}, g \in MoveGens, s \in MoveSearches}

InitMoves ==
  /\ InitBase
  /\ dbOk
  /\ slugIn = Undefined
  /\ slugOut = Undefined
  /\ input \in MovesInputs
  /\ output = Undefined

ApplyMoves ==
  /\ output = Undefined
  /\ output' = buildMoves(input.moves, input.moveGen, input.moveSearch)
  /\ UNCHANGED <<store, dbOk, stack, memVars, genVars, slugVars, appVars, input, contentVars, calls,
                 restarts,
                 first, lastDone, viewVars>>

NextMoves == ApplyMoves

SpecMoves == InitMoves /\ [][NextMoves]_vars

MovesBuilt == input.kind = "moves" /\ output # Undefined

\* the detail d passes the generation filter of the input
PassesFilter(d) ==
  input.moveGen = "all" \/ (d.genNum \in 1..Len(Digits) /\ Digits[d.genNum] = input.moveGen)

HasMatch(m) == \E i \in 1..Len(m.details) : PassesFilter(m.details[i])

\* how often the move named n occurs in the five buckets together
TimesListed(n) ==
  LET At(k) == {i \in 1..Len(output.out[k]) : output.out[k][i].name = n}
  IN Cardinality({<<k, i>> \in MoveBuckets \X (1..MaxRows + 1) : i \in At(k)})

\* C14 as stated: for a fixed generation filter, every move with a detail
\* matching the filter is in exactly one of the five buckets, once, and a
\* move without a matching detail is in none.
C14_OneBucket ==
  MovesBuilt =>
    \A i \in 1..Len(input.moves) :
      TimesListed(input.moves[i].name) = IF HasMatch(input.moves[i]) THEN 1 ELSE 0

\* C14 amended: the same for the moves whose name contains the search text;
\* a move whose name does not contain it is in no bucket, whatever its
\* details.
C14_OneBucketOfSearched ==
  MovesBuilt =>
    \A i \in 1..Len(input.moves) :
      LET m == input.moves[i]
          searched == \/ input.moveSearch = ""
                      \/ (input.moveSearch = " Row " /\ m.name = "growl")
      IN TimesListed(m.name) = IF searched /\ HasMatch(m) THEN 1 ELSE 0

\* a payload with a move that has a detail of the wanted generation and a
\* move that has details of other generations only
C14_Witness ==
  /\ MovesBuilt
  /\ input.moveGen = "1"
  /\ Len(input.moves) = 2
  /\ HasMatch(input.moves[1])
  /\ ~HasMatch(input.moves[2])
  /\ input.moves[2].details # <<>>
  /\ TimesListed(input.moves[1].name) = 1
  /\ TimesListed(input.moves[2].name) = 0

\* the move of the payload named n, and its details that pass the filter
MoveNamed(n) == input.moves[CHOOSE i \in 1..Len(input.moves) : input.moves[i].name = n]
PassingOf(m) ==
  LET idx == {i \in 1..Len(m.details) : PassesFilter(m.details[i])}
  IN [k \in 1..Cardinality(idx) |->
        m.details[CHOOSE i \in idx : Cardinality({j \in idx : j <= i}) = k]]

LearnedByLevel(d) ==
  d.move_learn_method # Undefined /\ d.move_learn_method.name = "level-up"

\* C15: the representative of a listed move is, among its details that pass
\* the filter, a level-up detail of the lowest level when there is a level-up
\* detail, and the first passing detail otherwise; the move is in the bucket
\* named by the representative's learn method when that is level-up, machine,
\* tutor or egg, and in `other` otherwise.
C15_Representative ==
  MovesBuilt =>
    \A n \in DOMAIN output.best :
      LET ms == PassingOf(MoveNamed(n))
          r == output.best[n]
          ups == {i \in 1..Len(ms) : LearnedByLevel(ms[i])}
          bucket == IF r.move_learn_method # Undefined
                       /\ r.move_learn_method.name \in {"level-up", "machine", "tutor", "egg"}
                    THEN r.move_learn_method.name ELSE "other"
      IN /\ \E i \in 1..Len(ms) : ms[i] = r
         /\ IF ups # {}
            THEN /\ LearnedByLevel(r)
                 /\ \A i \in ups :
                      ms[i].level_learned_at.kind = "num"
                        => /\ r.level_learned_at.kind = "num"
                           /\ r.level_learned_at.v <= ms[i].level_learned_at.v
            ELSE r = ms[1]
         /\ \E i \in 1..Len(output.out[bucket]) : output.out[bucket][i].name = n

\* a move whose passing details are a machine detail, the level-up detail of
\* level 12 and the level-up detail of level 7, in this order: the
\* representative is the one of level 7 and the move is in the level-up bucket
C15_Witness ==
  /\ MovesBuilt
  /\ input.moveGen = "1"
  /\ \E n \in DOMAIN output.best :
       LET ms == PassingOf(MoveNamed(n))
       IN /\ Len(ms) = 3
          /\ ms[1].move_learn_method = NameVal("machine")
          /\ ms[2].level_learned_at = Num(12) /\ LearnedByLevel(ms[2])
          /\ ms[3].level_learned_at = Num(7) /\ LearnedByLevel(ms[3])
          /\ output.best[n] = ms[3]
          /\ \E i \in 1..Len(output.out["level-up"]) : output.out["level-up"][i].name = n

(***************************************************************************)
(* Evolution helpers (App.jsx 155-216).  Labels are strings.  An evolution  *)
(* detail of this model carries trigger, min_level, min_happiness and item; *)
(* the other fields formatEvolutionDetail reads are null in every payload   *)
(* of the model.                                                            *)
(***************************************************************************)
\* the separator U+2022 between the parts of a detail and the label U+2014 of
\* a link without details, written in ASCII
Bullet == " * "
Dash == "--"

\* the string titleCaseSlug makes of a slug, word by word
Written(c) ==
  CASE c.cap = "thunder" -> "Thunder"
    [] c.cap = "stone" -> "Stone"
    [] c.cap = "shed" -> "Shed"
    [] c.cap = "night" -> "Night"
    [] c.cap = "forest" -> "Forest"
    [] c.cap = "rollout" -> "Rollout"
    [] c.cap = "fairy" -> "Fairy"
    [] c.cap = "scale" -> "Scale"
    [] c.cap = "remoraid" -> "Remoraid"
    [] c.cap = "dark" -> "Dark"
    [] c.cap = "shelmet" -> "Shelmet"

RECURSIVE Join(_, _)
Join(parts, sep) ==
  IF parts = <<>> THEN ""
  ELSE IF Len(parts) = 1 THEN parts[1]
  ELSE parts[1] \o sep \o Join(Tail(parts), sep)

TitleString(v) ==
  LET label == titleCaseSlug(v)
  IN Join([i \in 1..Len(label) |-> Written(label[i])], " ")

NonEmpty(s) == s # ""

\* the condition fields of an evolution detail, in the order of the source
FieldOrder ==
  <<"min_level", "min_happiness", "min_affection", "min_beauty", "time_of_day",
    "location", "known_move", "known_move_type", "held_item", "party_species",
    "party_type", "trade_species", "needs_overworld_rain", "turn_upside_down",
    "gender", "relative_physical_stats", "item">>

\* a detail record that asks for nothing, as the API writes it
NoDetail ==
  [kind |-> "detail", trigger |-> Null,
   min_level |-> Null, min_happiness |-> Null, min_affection |-> Null,
   min_beauty |-> Null, time_of_day |-> Str(<<>>), location |-> Null,
   known_move |-> Null, known_move_type |-> Null, held_item |-> Null,
   party_species |-> Null, party_type |-> Null, trade_species |-> Null,
   needs_overworld_rain |-> Bool(FALSE), turn_upside_down |-> Bool(FALSE),
   gender |-> Null, relative_physical_stats |-> Null, item |-> Null]

EvolutionDetail(trigger, min_level, min_happiness, item) ==
  [NoDetail EXCEPT !.trigger = trigger, !.min_level = min_level,
                   !.min_happiness = min_happiness, !.item = item]

\* x?.name, "" being the empty slug
NameOf(x) == IF Nullish(x) THEN <<>> ELSE x.name

\* what one `if` of the function pushes onto parts
Pushed(f, d) ==
  CASE f = "min_level" ->
         IF ~Nullish(d.min_level) THEN <<"Level " \o ToString(d.min_level.v)>> ELSE <<>>
    [] f = "min_happiness" ->
         IF ~Nullish(d.min_happiness)
         THEN <<"Friendship " \o ToString(d.min_happiness.v) \o "+">> ELSE <<>>
    [] f = "min_affection" ->
         IF ~Nullish(d.min_affection)
         THEN <<"Affection " \o ToString(d.min_affection.v) \o "+">> ELSE <<>>
    [] f = "min_beauty" ->
         IF ~Nullish(d.min_beauty)
         THEN <<"Beauty " \o ToString(d.min_beauty.v) \o "+">> ELSE <<>>
    [] f = "time_of_day" ->
         IF d.time_of_day.v # <<>>
         THEN <<"Time: " \o TitleString(d.time_of_day.v)>> ELSE <<>>
    [] f = "location" ->
         IF NameOf(d.location) # <<>>
         THEN <<"At " \o TitleString(d.location.name)>> ELSE <<>>
    [] f = "known_move" ->
         IF NameOf(d.known_move) # <<>>
         THEN <<"Knows " \o TitleString(d.known_move.name)>> ELSE <<>>
    [] f = "known_move_type" ->
         IF NameOf(d.known_move_type) # <<>>
         THEN <<"Knows a " \o TitleString(d.known_move_type.name) \o " move">> ELSE <<>>
    [] f = "held_item" ->
         IF NameOf(d.held_item) # <<>>
         THEN <<"Hold " \o TitleString(d.held_item.name)>> ELSE <<>>
    [] f = "party_species" ->
         IF NameOf(d.party_species) # <<>>
         THEN <<"Party: " \o TitleString(d.party_species.name)>> ELSE <<>>
    [] f = "party_type" ->
         IF NameOf(d.party_type) # <<>>
         THEN <<"Party Type: " \o TitleString(d.party_type.name)>> ELSE <<>>
    [] f = "trade_species" ->
         IF NameOf(d.trade_species) # <<>>
         THEN <<"Trade for " \o TitleString(d.trade_species.name)>> ELSE <<>>
    [] f = "needs_overworld_rain" ->
         IF Truthy(d.needs_overworld_rain) THEN <<"Overworld Rain">> ELSE <<>>
    [] f = "turn_upside_down" ->
         IF Truthy(d.turn_upside_down) THEN <<"Turn device upside down">> ELSE <<>>
    [] f = "gender" ->
         IF ~Nullish(d.gender)
         THEN <<IF d.gender = Num(1) THEN "Female"
                ELSE IF d.gender = Num(2) THEN "Male" ELSE "">>
         ELSE <<>>
    [] f = "relative_physical_stats" ->
         IF d.relative_physical_stats = Num(1) THEN <<"Atk > Def">>
         ELSE IF d.relative_physical_stats = Num(0) THEN <<"Atk = Def">>
         ELSE IF d.relative_physical_stats = Num(-1) THEN <<"Atk < Def">>
         ELSE <<>>
    [] f = "item" ->
         IF NameOf(d.item) # <<>> THEN <<"Use " \o TitleString(d.item.name)>> ELSE <<>>

\* parts, after the last push
Parts_Reversed(d) ==
  Pushed("item", d) \o Pushed("relative_physical_stats", d) \o Pushed("gender", d)
  \o Pushed("turn_upside_down", d) \o Pushed("needs_overworld_rain", d)
  \o Pushed("trade_species", d) \o Pushed("party_type", d) \o Pushed("party_species", d)
  \o Pushed("held_item", d) \o Pushed("known_move_type", d) \o Pushed("known_move", d)
  \o Pushed("location", d) \o Pushed("time_of_day", d) \o Pushed("min_beauty", d)
  \o Pushed("min_affection", d) \o Pushed("min_happiness", d) \o Pushed("min_level", d)
Parts(d) ==
  Pushed("min_level", d) \o Pushed("min_happiness", d) \o Pushed("min_affection", d)
  \o Pushed("min_beauty", d) \o Pushed("time_of_day", d) \o Pushed("location", d)
  \o Pushed("known_move", d) \o Pushed("known_move_type", d) \o Pushed("held_item", d)
  \o Pushed("party_species", d) \o Pushed("party_type", d) \o Pushed("trade_species", d)
  \o Pushed("needs_overworld_rain", d) \o Pushed("turn_upside_down", d)
  \o Pushed("gender", d) \o Pushed("relative_physical_stats", d) \o Pushed("item", d)

formatEvolutionDetail(d) ==
  IF ~Truthy(d) THEN ""
  ELSE LET parts == Parts(d)
           trigger == NameOf(d.trigger)
       IN IF parts = <<>> /\ trigger # <<>>
          THEN CASE trigger = <<"trade">> -> "Trade"
                 [] trigger = <<"use", "item">> -> "Use Item"
                 [] trigger = <<"level", "up">> -> "Level Up"
                 [] OTHER -> TitleString(trigger)
          ELSE Join(Filter(parts, NonEmpty), Bullet)

\* node?.species?.name || ""
SpeciesName(node) == IF Nullish(node.species) THEN "" ELSE node.species.name

\* the label of the link to child
how_Unfiltered(child) ==
  LET shown == [i \in 1..Len(child.evolution_details) |->
                  formatEvolutionDetail(child.evolution_details[i])]
  IN IF shown = <<>> THEN Dash ELSE Join(shown, " / ")
how(child) ==
  LET shown == Filter([i \in 1..Len(child.evolution_details) |->
                         formatEvolutionDetail(child.evolution_details[i])], NonEmpty)
  IN IF shown = <<>> THEN Dash ELSE Join(shown, " / ")

\* nodes.push(name) unless empty or listed
Visit_Always(acc, name) == [acc EXCEPT !.nodes = Append(@, name)]
Visit(acc, name) ==
  IF name # "" /\ \A i \in 1..Len(acc.nodes) : acc.nodes[i] # name
  THEN [acc EXCEPT !.nodes = Append(@, name)] ELSE acc

RECURSIVE walk(_, _), walkChildren(_, _, _, _)
walk(node, acc) ==
  walkChildren(node.evolves_to, 1, SpeciesName(node), Visit(acc, SpeciesName(node)))
walkChildren(children, i, from, acc) ==
  IF i > Len(children) THEN acc
  ELSE LET child == children[i]
           to == SpeciesName(child)
           seen == Visit(acc, to)
           linked == [seen EXCEPT !.edges = Append(@, [from |-> from, to |-> to,
                                                        how |-> how(child)])]
       IN walkChildren(children, i + 1, from, walk(child, linked))

collectEvolutionNodes(chainRoot) ==
  walk(chainRoot, [kind |-> "evolution", nodes |-> <<>>, edges |-> <<>>])

\* Chains: trees of at most MaxNodes links' ends.
ByLevel(n) == EvolutionDetail(NameVal(<<"level", "up">>), Num(n), Null, Null)

EvolutionDetailLists ==
  <<<<>>,
    <<ByLevel(16)>>,
    <<ByLevel(32)>>,
    <<EvolutionDetail(NameVal(<<"trade">>), Null, Null, Null),
      EvolutionDetail(NameVal(<<"shed">>), Null, Null, Null)>>,
    <<EvolutionDetail(NameVal(<<"level", "up">>), Num(20), Num(160), Null),
      Null,
      EvolutionDetail(NameVal(<<"use", "item">>), Null, Null, NameVal(<<"thunder", "stone">>)),
      EvolutionDetail(Undefined, Null, Null, Null)>>>>

ChainSpecies == <<NameVal("bulbasaur"), NameVal("ivysaur"), NameVal("venusaur"), Undefined>>

ChainLink(species, details, children) ==
  [species |-> species, evolution_details |-> details, evolves_to |-> children]

\* the shapes of the forests of k links' ends: every end picks its species
\* and its details by position in the lists above
RECURSIVE ForestsOf(_)
ForestsOf(k) ==
  IF k = 0 THEN {<<>>}
  ELSE UNION {{<<[sp |-> sp, ds |-> ds, cs |-> cs]>> \o rest :
                 sp \in 1..Len(ChainSpecies), ds \in 1..Len(EvolutionDetailLists),
                 cs \in ForestsOf(j - 1), rest \in ForestsOf(k - j)} : j \in 1..k}

RECURSIVE ChainOf(_)
ChainOf(shape) ==
  ChainLink(ChainSpecies[shape.sp], EvolutionDetailLists[shape.ds],
            [i \in 1..Len(shape.cs) |-> ChainOf(shape.cs[i])])

InitEvolution ==
  /\ InitBase
  /\ dbOk
  /\ slugIn = Undefined
  /\ slugOut = Undefined
  \* the root of a chain has no details
  /\ \E n \in 1..MaxNodes : \E cs \in ForestsOf(n - 1) : \E sp \in 1..Len(ChainSpecies) :
       input = [kind |-> "chain", chain |-> ChainOf([sp |-> sp, ds |-> 1, cs |-> cs])]
  /\ output = Undefined

ApplyEvolution ==
  /\ output = Undefined
  /\ output' = collectEvolutionNodes(input.chain)
  /\ UNCHANGED <<store, dbOk, stack, memVars, genVars, slugVars, appVars, input, contentVars, calls,
                 restarts,
                 first, lastDone, viewVars>>

NextEvolution == ApplyEvolution

SpecEvolution == InitEvolution /\ [][NextEvolution]_vars

EvolutionBuilt == input.kind = "chain" /\ output # Undefined

\* the names met by a pre-order depth-first visit of a chain; a link's end
\* without a name counts as ""
RECURSIVE Preorder(_), PreorderAll(_)
Preorder(node) ==
  <<IF node.species = Undefined THEN "" ELSE node.species.name>> \o PreorderAll(node.evolves_to)
PreorderAll(children) ==
  IF children = <<>> THEN <<>> ELSE Preorder(Head(children)) \o PreorderAll(Tail(children))

\* the parent-child links of a chain, as pairs of names
RECURSIVE LinksOf(_), LinksOfAll(_, _)
LinksOf(node) == LinksOfAll(Preorder(node)[1], node.evolves_to)
LinksOfAll(parent, children) ==
  IF children = <<>> THEN <<>>
  ELSE <<<<parent, Preorder(Head(children))[1]>>>> \o LinksOf(Head(children))
         \o LinksOfAll(parent, Tail(children))

CountIn(s, x) == Cardinality({i \in 1..Len(s) : s[i] = x})

BulbasaurChain ==
  ChainLink(NameVal("bulbasaur"), <<>>,
    <<ChainLink(NameVal("ivysaur"), <<ByLevel(16)>>,
        <<ChainLink(NameVal("venusaur"), <<ByLevel(32)>>, <<>>)>>)>>)

\* C16: the nodes are the names of the chain in the order a pre-order
\* depth-first visit first meets them, each once; there is exactly one edge
\* per parent-child link; and the chain bulbasaur -> ivysaur (level 16) ->
\* venusaur (level 32) gives the nodes and the edges the claim lists.
C16_PreorderNodesAndEdges ==
  EvolutionBuilt =>
    LET visit == Preorder(input.chain)
        links == LinksOf(input.chain)
        pairs == [i \in 1..Len(output.edges) |-> <<output.edges[i].from, output.edges[i].to>>]
    IN /\ \A i, j \in 1..Len(output.nodes) : i # j => output.nodes[i] # output.nodes[j]
       /\ {output.nodes[i] : i \in 1..Len(output.nodes)}
            = {visit[i] : i \in 1..Len(visit)} \ {""}
       /\ \A i, j \in 1..Len(output.nodes) :
            i < j => (CHOOSE k \in 1..Len(visit) :
                        visit[k] = output.nodes[i] /\ \A l \in 1..(k - 1) : visit[l] # visit[k])
                     < (CHOOSE k \in 1..Len(visit) :
                        visit[k] = output.nodes[j] /\ \A l \in 1..(k - 1) : visit[l] # visit[k])
       /\ Len(pairs) = Len(links)
       /\ \A i \in 1..Len(links) : CountIn(pairs, links[i]) = CountIn(links, links[i])
       /\ input.chain = BulbasaurChain =>
            /\ output.nodes = <<"bulbasaur", "ivysaur", "venusaur">>
            /\ output.edges = <<[from |-> "bulbasaur", to |-> "ivysaur", how |-> "Level 16"],
                                [from |-> "ivysaur", to |-> "venusaur", how |-> "Level 32"]>>

\* the chain of the example has been walked
C16_Witness ==
  /\ EvolutionBuilt
  /\ input.chain = BulbasaurChain
  /\ Len(output.nodes) = 3
  /\ Len(output.edges) = 2

(***************************************************************************)
(* Type chart (App.jsx 414-496).  A multiplier is written as its number of  *)
(* quarters: 0 for 0, 1 for 0.25, 2 for 0.5, 4 for 1, 8 for 2, 16 for 4.    *)
(***************************************************************************)
TYPES ==
  <<"normal", "fire", "water", "grass", "electric", "ice", "fighting", "poison", "ground", "flying", "psychic",
    "bug", "rock", "ghost", "dragon", "dark", "steel", "fairy">>

\* attackType -> defendType -> multiplier
TYPE_CHART ==
  [
    normal |-> [rock |-> 2, ghost |-> 0, steel |-> 2],
    fire |-> [fire |-> 2, water |-> 2, grass |-> 8, ice |-> 8, bug |-> 8, rock |-> 2, dragon |-> 2, steel |-> 8],
    water |-> [fire |-> 8, water |-> 2, grass |-> 2, ground |-> 8, rock |-> 8, dragon |-> 2],
    grass |-> [fire |-> 2, water |-> 8, grass |-> 2, poison |-> 2, ground |-> 8, flying |-> 2, bug |-> 2, rock |-> 8, dragon |-> 2, steel |-> 2],
    electric |-> [water |-> 8, grass |-> 2, electric |-> 2, ground |-> 0, flying |-> 8, dragon |-> 2],
    ice |-> [fire |-> 2, water |-> 2, grass |-> 8, ground |-> 8, flying |-> 8, dragon |-> 8, steel |-> 2, ice |-> 2],
    fighting |-> [normal |-> 8, ice |-> 8, rock |-> 8, dark |-> 8, steel |-> 8, poison |-> 2, flying |-> 2, psychic |-> 2, bug |-> 2, ghost |-> 0, fairy |-> 2],
    poison |-> [grass |-> 8, fairy |-> 8, poison |-> 2, ground |-> 2, rock |-> 2, ghost |-> 2, steel |-> 0],
    ground |-> [fire |-> 8, electric |-> 8, poison |-> 8, rock |-> 8, steel |-> 8, grass |-> 2, bug |-> 2, flying |-> 0],
    flying |-> [grass |-> 8, fighting |-> 8, bug |-> 8, electric |-> 2, rock |-> 2, steel |-> 2],
    psychic |-> [fighting |-> 8, poison |-> 8, psychic |-> 2, steel |-> 2, dark |-> 0],
    bug |-> [grass |-> 8, psychic |-> 8, dark |-> 8, fire |-> 2, fighting |-> 2, poison |-> 2, flying |-> 2, ghost |-> 2, steel |-> 2, fairy |-> 2],
    rock |-> [fire |-> 8, ice |-> 8, flying |-> 8, bug |-> 8, fighting |-> 2, ground |-> 2, steel |-> 2],
    ghost |-> [psychic |-> 8, ghost |-> 8, dark |-> 2, normal |-> 0],
    dragon |-> [dragon |-> 8, steel |-> 2, fairy |-> 0],
    dark |-> [psychic |-> 8, ghost |-> 8, fighting |-> 2, dark |-> 2, fairy |-> 2],
    steel |-> [ice |-> 8, rock |-> 8, fairy |-> 8, fire |-> 2, water |-> 2, electric |-> 2, steel |-> 2],
    fairy |-> [fighting |-> 8, dragon |-> 8, dark |-> 8, fire |-> 2, poison |-> 2, steel |-> 2]
  ]

\* TYPE_CHART[atk] || {}
RowOf(atk) ==
  IF atk.kind = "str" /\ atk.v \in DOMAIN TYPE_CHART THEN TYPE_CHART[atk.v] ELSE <<>>

\* row[def] ?? 1
Multiplier_Zero(row, def) ==
  IF def.kind = "str" /\ def.v \in DOMAIN row THEN row[def.v] ELSE 0
Multiplier(row, def) ==
  IF def.kind = "str" /\ def.v \in DOMAIN row THEN row[def.v] ELSE 4

\* def2 is truthy: neither undefined, null nor the empty string
Given(def) == Truthy(def) /\ def # Str("")

\* m1 * m2
typeEffect_Sum(atk, def1, def2) ==
  Multiplier(RowOf(atk), def1) + (IF Given(def2) THEN Multiplier(RowOf(atk), def2) ELSE 4)
typeEffect(atk, def1, def2) ==
  LET row == RowOf(atk)
      m1 == Multiplier(row, def1)
      m2 == IF Given(def2) THEN Multiplier(row, def2) ELSE 4
  IN (m1 * m2) \div 4

\* the types of the inputs: the 18 of the chart and one the chart lacks
TypeNames == {TYPES[i] : i \in 1..Len(TYPES)} \cup {"unknown"}
EffectInputs ==
  [kind : {"effect"},
   atk : {Str(t) : t \in TypeNames},
   def1 : {Str(t) : t \in TypeNames} \cup {Null, Undefined},
   def2 : {Str(t) : t \in TypeNames} \cup {Null, Undefined, Str("")}]

InitEffect ==
  /\ InitBase
  /\ dbOk
  /\ slugIn = Undefined
  /\ slugOut = Undefined
  /\ input \in EffectInputs
  /\ output = Undefined

ApplyEffect ==
  /\ output = Undefined
  /\ output' = Num(typeEffect(input.atk, input.def1, input.def2))
  /\ UNCHANGED <<store, dbOk, stack, memVars, genVars, slugVars, appVars, input, contentVars, calls,
                 restarts,
                 first, lastDone, viewVars>>

NextEffect == ApplyEffect

SpecEffect == InitEffect /\ [][NextEffect]_vars

EffectDone == input.kind = "effect" /\ output # Undefined
ChartType(x) == x.kind = "str" /\ \E i \in 1..Len(TYPES) : TYPES[i] = x.v
Omitted(x) == x \in {Null, Undefined}

\* C17: for an attacking and a defending type of the 18, and a second
\* defending type of the 18 or omitted, the multiplier is one of 0, 0.25, 0.5,
\* 1, 2, 4; for a type against itself alone it is the chart's entry when there
\* is one and 1 otherwise (fire against fire: 0.5).
C17_Multipliers ==
  (EffectDone /\ ChartType(input.atk) /\ ChartType(input.def1)
     /\ (ChartType(input.def2) \/ Omitted(input.def2))) =>
    /\ output.v \in {0, 1, 2, 4, 8, 16}
    /\ (input.def1 = input.atk /\ Omitted(input.def2)) =>
         output.v = IF input.atk.v \in DOMAIN TYPE_CHART[input.atk.v]
                    THEN TYPE_CHART[input.atk.v][input.atk.v] ELSE 4
    /\ (input.atk = Str("fire") /\ input.def1 = Str("fire") /\ input.def2 = Null) =>
         output.v = 2

\* fire against fire and fire: 0.25
C17_Witness ==
  /\ EffectDone
  /\ input.atk = Str("fire") /\ input.def1 = Str("fire") /\ input.def2 = Str("fire")
  /\ output.v = 1

\* C18: the multiplier against two defending types is the product of the
\* multipliers against each alone; an absent defending type, an omitted
\* second type and an attacking type the chart lacks each contribute 1.
C18_Product ==
  EffectDone =>
    /\ output.v * 4 = typeEffect(input.atk, input.def1, Null)
                        * typeEffect(input.atk, input.def2, Null)
    /\ Omitted(input.def1) => output.v = typeEffect(input.atk, input.def2, Null)
    /\ Omitted(input.def2) => output.v = typeEffect(input.atk, input.def1, Null)
    /\ (Omitted(input.def1) /\ Omitted(input.def2)) => output.v = 4
    /\ input.atk = Str("unknown") => output.v = 4

\* ground against fire and steel: 2 * 2
C18_Witness ==
  /\ EffectDone
  /\ input.atk = Str("ground") /\ input.def1 = Str("fire") /\ input.def2 = Str("steel")
  /\ typeEffect(input.atk, input.def1, Null) = 8
  /\ typeEffect(input.atk, input.def2, Null) = 8
  /\ output.v = 16

(***************************************************************************)
(* Content fetchers (App.jsx 344-403): sprites, moves, abilities, items    *)
(* and item categories, each with its in-memory cache.                     *)
(***************************************************************************)
\* `${pokemonName}::${shiny ? "shiny" : "normal"}`
SpriteKey(pokemonName, shiny) ==
  [kind |-> "spritekey", name |-> pokemonName, mode |-> IF shiny THEN "shiny" ELSE "normal"]

NoText == [kind |-> "str", v |-> <<>>]

\* (shiny ? front_shiny : front_default) || front_default || ""
SpriteOf(data, shiny) ==
  IF ~Truthy(data) THEN NoText
  ELSE IF shiny /\ Truthy(data.sprites.front_shiny) THEN data.sprites.front_shiny
  ELSE IF Truthy(data.sprites.front_default) THEN data.sprites.front_default
  ELSE NoText

\* the rest of getSpriteForPokemonName once data is known
SpriteKnown(key, data) ==
  /\ pokemonCache' = IF Truthy(data) THEN MapSet(pokemonCache, key.name, data) ELSE pokemonCache
  /\ spriteCache' = MapSet(spriteCache, key, SpriteOf(data, key.mode = "shiny"))

\* getSpriteForPokemonName resumed from `await fetchJsonOrNull(...)`
SpriteFetched(t) ==
  /\ Running(t, "getSpriteForPokemonName", "fetched")
  /\ LET f == Top(t)
     IN /\ SpriteKnown(f.a, f.r)
        /\ Ret(t, stack[t], SpriteOf(f.r, f.a.mode = "shiny"))
  /\ UNCHANGED <<store, dbOk, pokemonExistsCache, speciesDefaultPokemonCache, calls, restarts,
                 genVars, slugVars, appVars, pureVars, moveCache, moveMiniCache, abilityCache,
                 itemCache, itemCategoryCache, viewVars>>

\* { type: data?.type?.name || "unknown", dmgClass: data?.damage_class?.name || "status" }
MiniOf(data) ==
  IF Truthy(data)
    THEN [kind |-> "mini", type |-> data.type.name, dmgClass |-> data.damage_class.name]
    ELSE [kind |-> "mini", type |-> <<"unknown">>, dmgClass |-> <<"status">>]

\* the rest of getMoveMini once data is known
MiniKnown(moveName, data) ==
  /\ moveCache' = IF Truthy(data) THEN MapSet(moveCache, moveName, data) ELSE moveCache
  /\ moveMiniCache' = MapSet(moveMiniCache, moveName, MiniOf(data))

\* getMoveMini resumed from `await fetchJsonOrNull(...)`
MiniFetched(t) ==
  /\ Running(t, "getMoveMini", "fetched")
  /\ LET f == Top(t)
     IN /\ MiniKnown(f.a.name, f.r)
        /\ Ret(t, stack[t], MiniOf(f.r))
  /\ UNCHANGED <<store, dbOk, memVars, calls, restarts, genVars, slugVars, appVars, pureVars,
                 spriteCache, abilityCache, itemCache, itemCategoryCache, viewVars>>

\* `if (data) abilityCache.set(abilityName, data)`
RememberData(cache, name, data) == IF Truthy(data) THEN MapSet(cache, name, data) ELSE cache

\* getAbilityData resumed from `await fetchJsonOrNull(...)`
AbilityFetched(t) ==
  /\ Running(t, "getAbilityData", "fetched")
  /\ LET f == Top(t)
     IN /\ abilityCache' = RememberData(abilityCache, f.a.name, f.r)
        /\ Ret(t, stack[t], f.r)
  /\ UNCHANGED <<store, dbOk, memVars, calls, restarts, genVars, slugVars, appVars, pureVars,
                 spriteCache, moveCache, moveMiniCache, itemCache, itemCategoryCache, viewVars>>

\* getItemData resumed from `await fetchJsonOrNull(...)`
ItemFetched(t) ==
  /\ Running(t, "getItemData", "fetched")
  /\ LET f == Top(t)
     IN /\ itemCache' = RememberData(itemCache, f.a.name, f.r)
        /\ Ret(t, stack[t], f.r)
  /\ UNCHANGED <<store, dbOk, memVars, calls, restarts, genVars, slugVars, appVars, pureVars,
                 spriteCache, moveCache, moveMiniCache, abilityCache, itemCategoryCache,
                 viewVars>>

\* (data?.items || []).map((x) => x.name).filter(Boolean)
ItemNames(data) ==
  IF ~Truthy(data) THEN <<>>
  ELSE LET Named(x) == x.name # Undefined
           named == Filter(data.items, Named)
       IN [i \in 1..Len(named) |-> named[i].name]

\* getItemsInCategory resumed from `await fetchJsonOrNull(...)`
CategoryFetched(t) ==
  /\ Running(t, "getItemsInCategory", "fetched")
  /\ LET f == Top(t)
         list == [kind |-> "list", names |-> ItemNames(f.r)]
     IN /\ itemCategoryCache' = MapSet(itemCategoryCache, f.a.name, list)
        /\ Ret(t, stack[t], list)
  /\ UNCHANGED <<store, dbOk, memVars, calls, restarts, genVars, slugVars, appVars, pureVars,
                 spriteCache, moveCache, moveMiniCache, abilityCache, itemCache, viewVars>>

\* A memoizing fetcher is called: the cached value when the cache has the
\* name, else the fetch is started.
EnterContent(s, fn, cache, kind, name) ==
  IF MapHas(cache, name)
    THEN Append(s, Settled(fn, NameVal(name), MapGet(cache, name)))
    ELSE EnterFetch(Append(s, Frame(fn, "fetched", NameVal(name))), Url(kind, name))

SpriteNames == {Raichu, Ghost}

CallSprite(t) ==
  /\ FreeSlot(t)
  /\ calls < MaxCalls
  /\ calls' = calls + 1
  /\ \E n \in SpriteNames, shiny \in BOOLEAN :
       LET key == SpriteKey(n, shiny)
           fn == "getSpriteForPokemonName"
       IN IF MapHas(spriteCache, key)
            THEN /\ stack' = [stack EXCEPT ![t] = <<Settled(fn, key, MapGet(spriteCache, key))>>]
                 /\ UNCHANGED <<pokemonCache, spriteCache>>
          ELSE IF MapHas(pokemonCache, n)
            THEN /\ SpriteKnown(key, MapGet(pokemonCache, n))
                 /\ stack' = [stack EXCEPT ![t] =
                      <<Settled(fn, key, SpriteOf(MapGet(pokemonCache, n), shiny))>>]
          ELSE /\ stack' = [stack EXCEPT ![t] =
                    EnterFetch(<<Frame(fn, "fetched", key)>>, Url("pokemon", n))]
               /\ UNCHANGED <<pokemonCache, spriteCache>>
  /\ UNCHANGED <<store, dbOk, pokemonExistsCache, speciesDefaultPokemonCache, restarts, first,
                 lastDone, genVars, slugVars, appVars, pureVars, moveCache, moveMiniCache, abilityCache,
                 itemCache, itemCategoryCache, viewVars>>

CallMoveMini(t) ==
  /\ FreeSlot(t)
  /\ calls < MaxCalls
  /\ calls' = calls + 1
  /\ LET fn == "getMoveMini"
     IN IF MapHas(moveMiniCache, Tackle)
          THEN /\ stack' = [stack EXCEPT ![t] =
                    <<Settled(fn, NameVal(Tackle), MapGet(moveMiniCache, Tackle))>>]
               /\ UNCHANGED <<moveCache, moveMiniCache>>
        ELSE IF MapHas(moveCache, Tackle)
          THEN /\ MiniKnown(Tackle, MapGet(moveCache, Tackle))
               /\ stack' = [stack EXCEPT ![t] =
                    <<Settled(fn, NameVal(Tackle), MiniOf(MapGet(moveCache, Tackle)))>>]
        ELSE /\ stack' = [stack EXCEPT ![t] =
                  EnterFetch(<<Frame(fn, "fetched", NameVal(Tackle))>>, Url("move", Tackle))]
             /\ UNCHANGED <<moveCache, moveMiniCache>>
  /\ UNCHANGED <<store, dbOk, memVars, restarts, first, lastDone, genVars, slugVars, appVars, pureVars,
                 spriteCache, abilityCache, itemCache, itemCategoryCache, viewVars>>

CallContent(t) ==
  /\ FreeSlot(t)
  /\ calls < MaxCalls
  /\ calls' = calls + 1
  /\ \/ stack' = [stack EXCEPT ![t] =
                    EnterContent(<<>>, "getAbilityData", abilityCache, "ability", Static)]
     \/ stack' = [stack EXCEPT ![t] =
                    EnterContent(<<>>, "getItemData", itemCache, "item", ThunderStone)]
     \/ stack' = [stack EXCEPT ![t] =
                    EnterContent(<<>>, "getItemsInCategory", itemCategoryCache,
                                 "item-category", HeldItems)]
     \/ stack' = [stack EXCEPT ![t] = EnterDefault(<<>>, Raichu)]
  /\ UNCHANGED <<store, dbOk, memVars, restarts, first, lastDone, genVars, slugVars, appVars, pureVars,
                 contentVars, viewVars>>

NextContent ==
  \/ \E t \in Tasks : CallSprite(t)
  \/ \E t \in Tasks : CallMoveMini(t)
  \/ \E t \in Tasks : CallContent(t)
  \/ \E t \in Tasks : FetchGet(t)
  \/ \E t \in Tasks : FetchNet(t)
  \/ \E t \in Tasks : FetchJson(t)
  \/ \E t \in Tasks : FetchPut(t)
  \/ \E t \in Tasks : SpriteFetched(t)
  \/ \E t \in Tasks : MiniFetched(t)
  \/ \E t \in Tasks : AbilityFetched(t)
  \/ \E t \in Tasks : ItemFetched(t)
  \/ \E t \in Tasks : CategoryFetched(t)
  \/ \E t \in Tasks : DefaultFetched(t)
  \/ \E t \in Tasks : Deliver(t)

SpecContent == InitCommon /\ [][NextContent]_vars

ContentFetchers ==
  {"getSpriteForPokemonName", "getMoveMini", "getAbilityData", "getItemData",
   "getItemsInCategory", "getDefaultPokemonNameFromSpecies"}

\* task t takes the step that handles the outcome of a failed fetch of one
\* of the fetchers fns
FailureHandled(t, fns) ==
  /\ stack[t] # <<>>
  /\ Top(t).fn \in fns
  /\ Top(t).pc = "fetched"
  /\ Top(t).r = Null
  /\ stack'[t] # stack[t]

\* C19: the step that handles a failed content fetch (move, ability, item,
\* item category, species default variety, sprite source) writes no entry to
\* any in-memory cache.
C19_FailureNotCached ==
  [][\A t \in Tasks :
       FailureHandled(t, ContentFetchers)
         => UNCHANGED <<pokemonCache, pokemonExistsCache, speciesDefaultPokemonCache,
                        contentVars>>]_vars

\* the same for the ability and the item fetcher alone
C19_AbilityAndItem ==
  [][\A t \in Tasks :
       FailureHandled(t, {"getAbilityData", "getItemData"})
         => UNCHANGED <<pokemonCache, pokemonExistsCache, speciesDefaultPokemonCache,
                        contentVars>>]_vars

\* the frame f is suspended in `await fetch(...)` (App.jsx 103, 113, 136, 297)
AwaitsNetwork(f) ==
  \/ f.fn = "fetchJsonOrNull" /\ f.pc = "net"
  \/ f.fn = "getVersionGenNumber" /\ f.pc \in {"version", "group"}
  \/ f.fn = "getVersionGroupGenNumber" /\ f.pc = "group"

\* task t issues a network request in this step
Requests(t) ==
  /\ stack'[t] # <<>>
  /\ AwaitsNetwork(stack'[t][Len(stack'[t])])
  /\ (stack[t] = <<>> \/ Top(t) # stack'[t][Len(stack'[t])])

\* C20: every network request of a resolver is issued by the fetch-with-cache
\* layer, for a key the persistent cache does not hold.
C20_ThroughCacheLayer ==
  [][\A t \in Tasks :
       Requests(t) =>
         LET f == stack'[t][Len(stack'[t])]
         IN f.fn = "fetchJsonOrNull" /\ ~MapHas(store, f.a)]_vars

(***************************************************************************)
(* The in-memory caches as a whole                                         *)
(***************************************************************************)
\* every key of map m is a key of map n with the same value
Kept(m, n) == \A k \in DOMAIN m : k \in DOMAIN n /\ n[k] = m[k]

\* C21: between two page loads every in-memory cache is append-only: a key
\* once inserted stays, and the value under it is never replaced by a
\* different one.
C21_AppendOnly ==
  [][restarts' = restarts =>
       /\ Kept(pokemonCache, pokemonCache')
       /\ Kept(pokemonExistsCache, pokemonExistsCache')
       /\ Kept(speciesDefaultPokemonCache, speciesDefaultPokemonCache')
       /\ Kept(spriteCache, spriteCache')
       /\ Kept(moveCache, moveCache')
       /\ Kept(moveMiniCache, moveMiniCache')
       /\ Kept(abilityCache, abilityCache')
       /\ Kept(itemCache, itemCache')
       /\ Kept(itemCategoryCache, itemCategoryCache')
       /\ Kept(versionGenCache, versionGenCache')
       /\ Kept(versionGroupGenCache, versionGroupGenCache')]_vars

\* the part of C21 that holds: no key is ever removed, and the caches that
\* are written only with a fetched payload never change a value
C21_NoRemoval ==
  [][restarts' = restarts =>
       /\ DOMAIN pokemonExistsCache \subseteq DOMAIN pokemonExistsCache'
       /\ DOMAIN speciesDefaultPokemonCache \subseteq DOMAIN speciesDefaultPokemonCache'
       /\ DOMAIN spriteCache \subseteq DOMAIN spriteCache'
       /\ DOMAIN moveMiniCache \subseteq DOMAIN moveMiniCache'
       /\ DOMAIN itemCategoryCache \subseteq DOMAIN itemCategoryCache'
       /\ DOMAIN versionGenCache \subseteq DOMAIN versionGenCache'
       /\ DOMAIN versionGroupGenCache \subseteq DOMAIN versionGroupGenCache'
       /\ Kept(pokemonCache, pokemonCache')
       /\ Kept(moveCache, moveCache')
       /\ Kept(abilityCache, abilityCache')
       /\ Kept(itemCache, itemCache')]_vars

\* task t takes a step of its chain in this step (no page reload)
Steps(t) == stack'[t] # stack[t] /\ restarts' = restarts

\* C22: a fetchJsonOrNull call that does not find its key in the store
\* issues its own network request, whether or not another call for the same
\* key is in flight; and every call that saves leaves the store holding its
\* value, so the store ends with the value of the last one.
C22_NoDeduplication ==
  [][\A t \in Tasks :
       /\ (/\ Running(t, "fetchJsonOrNull", "get")
           /\ Steps(t)
           /\ dbOk
           /\ ~CacheHit(GetFromCache(store, Top(t).a)))
            => /\ stack'[t] # <<>>
               /\ stack'[t][Len(stack'[t])].fn = "fetchJsonOrNull"
               /\ stack'[t][Len(stack'[t])].pc = "net"
       /\ (/\ Running(t, "fetchJsonOrNull", "put")
           /\ Steps(t)
           /\ lastDone'.res # Null)
            => GetFromCache(store', Top(t).a) = Top(t).b]_vars

\* two overlapping calls for one key, both answered by the network: one has
\* saved its value, the other is about to save
C22_Witness ==
  /\ DoneFetch
  /\ "saved" \in lastDone.how
  /\ \E t \in Tasks :
       /\ Running(t, "fetchJsonOrNull", "put")
       /\ Top(t).a = lastDone.a
       /\ "miss" \in Top(t).how
       /\ MapHas(store, Top(t).a)

(***************************************************************************)
(* clearOfflineCache (App.jsx 656-682): the "clear cache" button.  The     *)
(* IndexedDB databases are deleted when the browser can list them          *)
(* (indexedDB.databases), and the page is reloaded: the deletion waits for *)
(* the page's connection to close, so the store empties at the reload.     *)
(* The history of completed calls (first) is kept across the clear.        *)
(***************************************************************************)
\* an in-memory map after window.location.reload()
AfterReload_Kept(map) == map
AfterReload(map) == EmptyMap

\* the store after the loop over indexedDB.databases()
AfterDelete(listed) == IF listed THEN EmptyMap ELSE store

ClearOfflineCache ==
  /\ restarts < MaxRestarts
  /\ restarts' = restarts + 1
  /\ \E listed \in BOOLEAN : store' = AfterDelete(listed)
  /\ stack' = [t \in Tasks |-> <<>>]
  /\ pokemonCache' = AfterReload(pokemonCache)
  /\ pokemonExistsCache' = AfterReload(pokemonExistsCache)
  /\ speciesDefaultPokemonCache' = AfterReload(speciesDefaultPokemonCache)
  /\ versionGenCache' = AfterReload(versionGenCache)
  /\ versionGroupGenCache' = AfterReload(versionGroupGenCache)
  /\ spriteCache' = AfterReload(spriteCache)
  /\ moveCache' = AfterReload(moveCache)
  /\ moveMiniCache' = AfterReload(moveMiniCache)
  /\ abilityCache' = AfterReload(abilityCache)
  /\ itemCache' = AfterReload(itemCache)
  /\ itemCategoryCache' = AfterReload(itemCategoryCache)
  /\ lastDone' = [NoCall EXCEPT !.fn = "clearOfflineCache"]
  /\ modal' = Closed
  /\ downloading' = FALSE
  /\ downloadProgress' = 0
  /\ downloadOpen' = FALSE
  /\ confirmClear' = FALSE
  /\ clearTimer' = FALSE
  /\ UNCHANGED <<dbOk, calls, first, slugVars, pureVars, alive, commit>>

NextClear ==
  \/ \E t \in Tasks : CallExists(t)
  \/ \E t \in Tasks : FetchGet(t)
  \/ \E t \in Tasks : FetchNet(t)
  \/ \E t \in Tasks : FetchJson(t)
  \/ \E t \in Tasks : FetchPut(t)
  \/ \E t \in Tasks : ExistsFetched(t)
  \/ \E t \in Tasks : Deliver(t)
  \/ ClearOfflineCache

SpecClear == InitCommon /\ [][NextClear]_vars

\* this step is the clear-cache action
ClearStep == lastDone'.fn = "clearOfflineCache" /\ restarts' # restarts

\* C23 as stated: the clear-cache action empties the persistent store and
\* leaves the in-memory lookup maps as they are.
C23_MapsSurviveClear ==
  [][ClearStep => (store' = EmptyMap /\ UNCHANGED <<memVars, genVars, contentVars>>)]_vars

\* C23 amended: the clear-cache action ends in a page reload, so every
\* in-memory lookup map is empty and every pending chain is gone after it;
\* the persistent store is empty after it when the browser could list its
\* databases and is left as it was otherwise.
C23_ClearResetsMaps ==
  [][ClearStep =>
       /\ store' \in {EmptyMap, store}
       /\ pokemonCache' = EmptyMap
       /\ pokemonExistsCache' = EmptyMap
       /\ speciesDefaultPokemonCache' = EmptyMap
       /\ versionGenCache' = EmptyMap
       /\ versionGroupGenCache' = EmptyMap
       /\ contentVars' = <<EmptyMap, EmptyMap, EmptyMap, EmptyMap, EmptyMap, EmptyMap>>
       /\ \A t \in Tasks : stack'[t] = <<>>]_vars

\* a name resolved before the clear has been asked again after it and was
\* answered by a request to the network
C23_Witness ==
  /\ DoneExists
  /\ restarts > 0
  /\ lastDone.snap # Undefined
  /\ lastDone.net
  /\ store # EmptyMap

\* the name ends in a regional suffix
Suffixed(n) == n # <<>> /\ n[Len(n)] \in {"alola", "galar", "paldea"}

\* C24: while getPokemonDataSmart runs under a dex key that maps to no
\* regional suffix, none of the existence probes and requests it has
\* pending is for a suffixed candidate name.
C24_NoSuffixedProbe ==
  \A t \in Tasks :
    (/\ stack[t] # <<>>
     /\ stack[t][1].fn = "getPokemonDataSmart"
     /\ stack[t][1].a.dex \notin {DexAlola, DexGalar, DexPaldea})
      => \A i \in 2..Len(stack[t]) :
           stack[t][i].fn \in {"pokemonExists", "fetchJsonOrNull"}
             => ~Suffixed(stack[t][i].a.name)

\* under the national dex the resolver is probing the default name over the
\* network
C24_Witness ==
  \E t \in Tasks :
    /\ Len(stack[t]) = 3
    /\ stack[t][1].fn = "getPokemonDataSmart"
    /\ stack[t][1].a.dex = DexNational
    /\ stack[t][1].pc = "defaultExists"
    /\ stack[t][2].fn = "pokemonExists"
    /\ stack[t][3].fn = "fetchJsonOrNull"
    /\ stack[t][3].pc = "net"

\* the variant / form chain of task t is running
Probing(t) == stack[t] # <<>> /\ stack[t][1].fn = "DetailsModal.variants"

\* C25: the variant / form chain of a view, and with it the first candidate
\* probe, starts only in the step in which load() of the same effect run
\* resumes from the base pokemon fetch, the species fetch having delivered
\* the species before.
C25_ProbesAfterFetches ==
  [][\A t \in Tasks :
       (~Probing(t) /\ Probing(t)')
         => /\ Running(t, "DetailsModal.load", "basePoke")
            /\ Top(t).r \notin {Undefined, Thrown}
            /\ Truthy(Top(t).b.sData)
            /\ Top(t).b.sData = Upstream(Url("pokemon-species", Top(t).a.name))
            /\ stack'[t][1].a = Top(t).a
            /\ stack'[t][1].b.baseName = Top(t).b.baseName]_vars

\* a candidate probe of the view is on the network, the species committed
C25_Witness ==
  \E t \in Tasks :
    /\ Probing(t)
    /\ Len(stack[t]) = 3
    /\ stack[t][1].pc = "probe"
    /\ stack[t][2].fn = "pokemonExists"
    /\ stack[t][3].pc = "net"
    /\ modal # Closed
    /\ modal.eff = stack[t][1].a.eff
    /\ modal.species # Null
    /\ MapHas(pokemonCache, stack[t][1].b.baseName)

\* the detail records of the links of a chain, link by link in the order of
\* LinksOf
RECURSIVE DetailsOf(_), DetailsOfAll(_)
DetailsOf(node) == DetailsOfAll(node.evolves_to)
DetailsOfAll(children) ==
  IF children = <<>> THEN <<>>
  ELSE <<Head(children).evolution_details>> \o DetailsOf(Head(children))
         \o DetailsOfAll(Tail(children))

\* the formatted conditions of the records, the empty ones dropped
Conditions(details) ==
  Filter([i \in 1..Len(details) |-> formatEvolutionDetail(details[i])], NonEmpty)

Labelled(sep) ==
  EvolutionBuilt =>
    LET details == DetailsOf(input.chain) IN
    /\ Len(output.edges) = Len(details)
    /\ \A i \in 1..Len(details) :
         output.edges[i].how = IF Conditions(details[i]) = <<>> THEN Dash
                               ELSE Join(Conditions(details[i]), sep)

\* C26 as stated: the label of an edge is the non-empty formatted conditions
\* of its detail records, in record order, joined with the bullet separator,
\* and the placeholder when there is none.
C26_BulletJoined == Labelled(Bullet)

\* C26: the label of an edge is the non-empty formatted conditions of its
\* detail records, in record order, joined with " / " (the bullet separates
\* the clauses within one record), and the placeholder when there is none.
C26_SlashJoined == Labelled(" / ")

\* a walked chain with an edge of two non-empty records among empty ones and
\* an edge without a non-empty record
C26_Witness ==
  /\ EvolutionBuilt
  /\ \E i \in 1..Len(output.edges) :
       output.edges[i].how = "Level 20 * Friendship 160+ / Use Thunder Stone"
  /\ \E i \in 1..Len(output.edges) : output.edges[i].how = Dash

(***************************************************************************)
(* Specification of formatEvolutionDetail alone (App.jsx 155-190), on a    *)
(* detail record with at most MaxPresent condition fields and a trigger.   *)
(***************************************************************************)
FieldNames == {FieldOrder[i] : i \in 1..Len(FieldOrder)}

\* the sets of at most k condition fields
RECURSIVE FieldSets(_)
FieldSets(k) ==
  IF k = 0 THEN {{}}
  ELSE FieldSets(k - 1) \cup {S \cup {f} : S \in FieldSets(k - 1), f \in FieldNames}

Genders == {Num(1), Num(2), Num(3)}
StatOrders == {Num(1), Num(0), Num(-1)}
Triggers == {Null, NameVal(<<"trade">>), NameVal(<<"use", "item">>),
             NameVal(<<"level", "up">>), NameVal(<<"shed">>)}

\* the value of a condition field that is set
Asked(f, gender, stats) ==
  CASE f = "min_level" -> Num(16)
    [] f = "min_happiness" -> Num(160)
    [] f = "min_affection" -> Num(2)
    [] f = "min_beauty" -> Num(171)
    [] f = "time_of_day" -> Str(<<"night">>)
    [] f = "location" -> NameVal(<<"forest">>)
    [] f = "known_move" -> NameVal(<<"rollout">>)
    [] f = "known_move_type" -> NameVal(<<"fairy">>)
    [] f = "held_item" -> NameVal(<<"scale">>)
    [] f = "party_species" -> NameVal(<<"remoraid">>)
    [] f = "party_type" -> NameVal(<<"dark">>)
    [] f = "trade_species" -> NameVal(<<"shelmet">>)
    [] f = "needs_overworld_rain" -> Bool(TRUE)
    [] f = "turn_upside_down" -> Bool(TRUE)
    [] f = "gender" -> gender
    [] f = "relative_physical_stats" -> stats
    [] f = "item" -> NameVal(<<"thunder", "stone">>)

DetailOf(S, trigger, gender, stats) ==
  [k \in DOMAIN NoDetail |->
     IF k \in S THEN Asked(k, gender, stats)
     ELSE IF k = "trigger" THEN trigger ELSE NoDetail[k]]

InitDetail ==
  /\ InitBase
  /\ dbOk
  /\ slugIn = Undefined
  /\ slugOut = Undefined
  /\ \E S \in FieldSets(MaxPresent) : \E trigger \in Triggers :
       \E gender \in Genders : \E stats \in StatOrders :
         input = [kind |-> "detail", d |-> DetailOf(S, trigger, gender, stats)]
  /\ output = Undefined

ApplyDetail ==
  /\ output = Undefined
  /\ output' = [kind |-> "label", text |-> formatEvolutionDetail(input.d)]
  /\ UNCHANGED <<store, dbOk, stack, memVars, genVars, slugVars, appVars, input, contentVars, calls,
                 restarts, first, lastDone, viewVars>>

NextDetail == ApplyDetail

SpecDetail == InitDetail /\ [][NextDetail]_vars

DetailFormatted == input.kind = "detail" /\ output # Undefined

\* the condition fields set on a record, in the fixed order
PresentFields(d) == Filter(FieldOrder, LAMBDA f : d[f] # NoDetail[f])

RECURSIVE Flat(_)
Flat(ss) == IF ss = <<>> THEN <<>> ELSE Head(ss) \o Flat(Tail(ss))

CanonicalPhrase(trigger) ==
  CASE trigger = <<"trade">> -> "Trade"
    [] trigger = <<"use", "item">> -> "Use Item"
    [] trigger = <<"level", "up">> -> "Level Up"
    [] OTHER -> TitleString(trigger)

OneClausePerField(d) ==
  LET present == PresentFields(d)
      clauses == [i \in 1..Len(present) |-> Pushed(present[i], d)]
  IN IF present # <<>>
       THEN /\ \A i \in 1..Len(present) : Len(clauses[i]) = 1 /\ clauses[i][1] # ""
            /\ output.text = Join(Flat(clauses), Bullet)
     ELSE d.trigger # Null => output.text = CanonicalPhrase(d.trigger.name)

\* C27: the text has exactly one non-empty clause for each condition field
\* set on the record, in the fixed field order; and with no condition field
\* set but a trigger name, it is the canonical phrase of the trigger.
C27_OneClausePerField == DetailFormatted => OneClausePerField(input.d)

\* the part of C27 that holds: records whose gender, when set, is 1 or 2
C27_FemaleOrMale ==
  (DetailFormatted /\ input.d.gender # Num(3)) => OneClausePerField(input.d)

\* a record that asks for a gender other than female and male
C27_Genderless ==
  /\ DetailFormatted
  /\ input.d.gender = Num(3)
  /\ input.d.trigger = NameVal(<<"level", "up">>)
  /\ output.text = ""

\* alphabetical order of the move names of this model
NameAscending(a, b) == a = b \/ (a = "growl" /\ b = "tackle")

\* the level a listed move is ordered by
OrderingLevel(rec) == IF rec.level = Null THEN 999 ELSE rec.level.v

\* C28: the level-up bucket is ordered by level ascending (a missing level
\* counting as 999) and then by name ascending; the machine, tutor, egg and
\* other buckets are ordered by name ascending.
C28_BucketOrder ==
  MovesBuilt =>
    /\ \A i, j \in 1..Len(output.out["level-up"]) :
         i < j =>
           LET a == output.out["level-up"][i]
               b == output.out["level-up"][j]
           IN \/ OrderingLevel(a) < OrderingLevel(b)
              \/ (OrderingLevel(a) = OrderingLevel(b) /\ NameAscending(a.name, b.name))
    /\ \A k \in {"machine", "tutor", "egg", "other"} :
         \A i, j \in 1..Len(output.out[k]) :
           i < j => NameAscending(output.out[k][i].name, output.out[k][j].name)

\* growl comes first in the payload and is learned at no level, tackle is
\* learned at a level: tackle is listed first
C28_Witness ==
  /\ MovesBuilt
  /\ Len(input.moves) = 2
  /\ input.moves[1].name = "growl"
  /\ Len(output.out["level-up"]) = 2
  /\ output.out["level-up"][1].name = "tackle"
  /\ output.out["level-up"][1].level # Null
  /\ output.out["level-up"][2].level = Null

\* the name contains the search text (trimmed, in lower case)
Searched(n) ==
  input.moveSearch = "" \/ (input.moveSearch = " Row " /\ n = "growl")

\* the details of a move that are eligible under the filter of the input:
\* those resolved to the wanted generation, or all without a filter
EligibleOf(m) ==
  {i \in 1..Len(m.details) :
     \/ input.moveGen = "all"
     \/ (input.moveGen = "1" /\ m.details[i].genNum = 1)}

\* C29: a move is listed if and only if its name contains the search text
\* and one of its details is eligible, that is, resolves to the wanted
\* generation when a generation is wanted and is any detail otherwise; and
\* the representative of a listed move is one of its eligible details.
C29_ListedIffEligible ==
  MovesBuilt =>
    \A i \in 1..Len(input.moves) :
      LET m == input.moves[i]
          listed == \E k \in MoveBuckets :
                      \E j \in 1..Len(output.out[k]) : output.out[k][j].name = m.name
      IN /\ listed <=> (Searched(m.name) /\ EligibleOf(m) # {})
         /\ listed <=> m.name \in DOMAIN output.best
         /\ listed => \E j \in EligibleOf(m) : output.best[m.name] = m.details[j]

\* generation 1 is wanted and "row" searched: growl, learned by level in
\* generation 2 and by machine in generation 1, is listed by its machine
\* detail, and tackle is not listed
C29_Witness ==
  /\ MovesBuilt
  /\ input.moveGen = "1"
  /\ input.moveSearch = " Row "
  /\ Len(input.moves) = 2
  /\ input.moves[1].name = "growl"
  /\ input.moves[1].details = <<Detail(NameVal("level-up"), Num(7), NameVal(GoldSilver), 2),
                                Detail(NameVal("machine"), Num(0), NameVal(RedBlue), 1)>>
  /\ EligibleOf(input.moves[2]) # {}
  /\ output.best["growl"] = input.moves[1].details[2]
  /\ Len(output.out["machine"]) = 1
  /\ DOMAIN output.best = {"growl"}

(***************************************************************************)
(* Move popup text (MoveDetails, App.jsx 2029-2120): the English flavor    *)
(* texts of a move by version group, annotated with the generation number  *)
(* getVersionGroupGenNumber answers, and the entries shown under the       *)
(* generation selector and the show-all toggle.                            *)
(***************************************************************************)
TextEntry(language, vg, text) ==
  [language |-> language, version_group |-> vg, flavor_text |-> text]

\* (e.flavor_text || "").replace(/\f|\n/g, " ").trim() on the texts of this
\* model
Clean(text) ==
  CASE text = "Hits.\n" -> "Hits."
    [] text = "Hits\nhard." -> "Hits hard."
    [] text = "\n" -> ""
    [] OTHER -> text

\* the answer of getVersionGroupGenNumber: the group lost-group is unknown
\* to the API
GroupGenNumber(vg) ==
  IF vg = RedBlue THEN 1 ELSE IF vg = GoldSilver THEN 2 ELSE Sentinel

\* a.vg.localeCompare(b.vg) < 0
GroupOrder == <<GoldSilver, LostGroup, RedBlue>>
GroupBefore(a, b) ==
  (CHOOSE i \in 1..Len(GroupOrder) : GroupOrder[i] = a)
    < (CHOOSE i \in 1..Len(GroupOrder) : GroupOrder[i] = b)

\* flavorEn
FlavorEn(move) ==
  LET English(e) == e.language = NameVal("en")
      en == Filter(move.flavor_text_entries, English)
      Named(x) == x.vg # <<>> /\ x.text # ""
  IN Filter([i \in 1..Len(en) |->
               [vg |-> NameOf(en[i].version_group), text |-> Clean(en[i].flavor_text)]],
            Named)

\* the entries of the Map filled from flavorEn: a key stays where it was
\* first set and holds the text set last
UniqueGroups(flavorEn) ==
  LET firsts == {i \in 1..Len(flavorEn) :
                   \A j \in 1..(i - 1) : flavorEn[j].vg # flavorEn[i].vg}
      nth(k) == CHOOSE i \in firsts : Cardinality({j \in firsts : j < i}) = k - 1
      last(vg) == CHOOSE i \in 1..Len(flavorEn) :
                    /\ flavorEn[i].vg = vg
                    /\ \A j \in (i + 1)..Len(flavorEn) : flavorEn[j].vg # vg
  IN [k \in 1..Cardinality(firsts) |->
        [vg |-> flavorEn[nth(k)].vg, text |-> flavorEn[last(flavorEn[nth(k)].vg)].text]]

\* comparator of withGen.sort
TextBefore_Reversed(a, b) ==
  IF a.gen # b.gen THEN a.gen > b.gen ELSE GroupBefore(a.vg, b.vg)
TextBefore(a, b) ==
  IF a.gen # b.gen THEN a.gen < b.gen ELSE GroupBefore(a.vg, b.vg)

\* what the effect passes to setAnnotated
Annotated(move) ==
  LET unique == UniqueGroups(FlavorEn(move))
      withGen == [i \in 1..Len(unique) |->
                    [vg |-> unique[i].vg, text |-> unique[i].text,
                     gen |-> GroupGenNumber(unique[i].vg)]]
  IN SortBy(withGen, TextBefore)

\* annotated.slice(-1)
LastOf(s) == IF s = <<>> THEN <<>> ELSE <<s[Len(s)]>>

\* shown, for a render with the given annotated
Shown(annotated, showAllGenText, selectedGen) ==
  LET genWanted == GenWanted(selectedGen)
  IN IF showAllGenText THEN annotated
     ELSE IF genWanted = Null THEN LastOf(annotated)
     ELSE LET Exact(x) == x.gen = genWanted.v
              exact == Filter(annotated, Exact)
              gens == {annotated[i].gen : i \in 1..Len(annotated)} \ {Sentinel}
              after == {g \in gens : g > genWanted.v}
              before == {g \in gens : g < genWanted.v}
              chosen == IF after # {} THEN CHOOSE g \in after : \A h \in after : g <= h
                        ELSE IF before # {} THEN CHOOSE g \in before : \A h \in before : h <= g
                        ELSE Sentinel
              Close(x) == x.gen = chosen
              close == Filter(annotated, Close)
          IN IF exact # <<>> THEN exact
             ELSE IF chosen # Sentinel /\ close # <<>> THEN close
             ELSE LastOf(annotated)

TextEntries ==
  {TextEntry(NameVal("en"), NameVal(g), t) :
     g \in {RedBlue, GoldSilver, LostGroup}, t \in {"Hits.\n", "Hits\nhard."}}
  \cup {TextEntry(NameVal("ja"), NameVal(RedBlue), "Hits.\n"),
        TextEntry(NameVal("en"), Undefined, "Hits.\n"),
        TextEntry(NameVal("en"), NameVal(RedBlue), "\n")}

TextGens == {"all", "1", "3"}

InitText ==
  /\ InitBase
  /\ dbOk
  /\ slugIn = Undefined
  /\ slugOut = Undefined
  /\ \E n \in 0..MaxEntries : \E es \in [1..n -> TextEntries] :
       \E all \in BOOLEAN : \E g \in TextGens :
         input = [kind |-> "text", move |-> [flavor_text_entries |-> es],
                  showAllGenText |-> all, selectedGen |-> g]
  /\ output = Undefined

\* the first render: annotated is still the empty list
RenderText ==
  /\ output = Undefined
  /\ output' = [kind |-> "text", ready |-> FALSE, annotated |-> <<>>,
                shown |-> Shown(<<>>, input.showAllGenText, input.selectedGen)]
  /\ UNCHANGED <<store, dbOk, stack, memVars, genVars, slugVars, appVars, input, contentVars, calls,
                 restarts, first, lastDone, viewVars>>

\* the effect has resolved its generations: setAnnotated, and the render
\* that follows
AnnotateText ==
  /\ output # Undefined
  /\ ~output.ready
  /\ output' = [kind |-> "text", ready |-> TRUE, annotated |-> Annotated(input.move),
                shown |-> Shown(Annotated(input.move), input.showAllGenText,
                                input.selectedGen)]
  /\ UNCHANGED <<store, dbOk, stack, memVars, genVars, slugVars, appVars, input, contentVars, calls,
                 restarts, first, lastDone, viewVars>>

NextText == RenderText \/ AnnotateText

SpecText == InitText /\ [][NextText]_vars

TextReady == input.kind = "text" /\ output # Undefined /\ output.ready

\* the English text entries of the move that name a version group and have
\* a text
EnglishTexts ==
  {i \in 1..Len(input.move.flavor_text_entries) :
     LET e == input.move.flavor_text_entries[i]
     IN /\ e.language = NameVal("en")
        /\ e.version_group # Undefined
        /\ e.flavor_text # "\n"}

\* the generation of the i-th entry, 0 when its group is not resolved
ResolvedGen(i) ==
  LET vg == input.move.flavor_text_entries[i].version_group.name
  IN IF vg = RedBlue THEN 1 ELSE IF vg = GoldSilver THEN 2 ELSE 0

\* C30: with generation "all" and the toggle off, a move with English text
\* shows exactly one entry, and it is an entry of the highest generation
\* that a text entry of the move resolves to.
C30_NewestResolved ==
  (TextReady /\ input.selectedGen = "all" /\ ~input.showAllGenText /\ EnglishTexts # {})
    => /\ Len(output.shown) = 1
       /\ \A i \in EnglishTexts :
            ResolvedGen(i) > 0
              => /\ output.shown[1].gen # Sentinel
                 /\ output.shown[1].gen >= ResolvedGen(i)

\* the part of C30 that holds: exactly one entry is shown, the last in the
\* order of generation number and group name, an unresolved group counting
\* as generation 999
C30_LastAnnotated ==
  (TextReady /\ input.selectedGen = "all" /\ ~input.showAllGenText /\ EnglishTexts # {})
    => /\ Len(output.shown) = 1
       /\ \E i \in EnglishTexts :
            output.shown[1].vg = input.move.flavor_text_entries[i].version_group.name
       /\ \A i \in EnglishTexts :
            LET vg == input.move.flavor_text_entries[i].version_group.name
                gen == IF ResolvedGen(i) > 0 THEN ResolvedGen(i) ELSE 999
            IN \/ gen < output.shown[1].gen
               \/ (gen = output.shown[1].gen
                   /\ (vg = output.shown[1].vg \/ GroupBefore(vg, output.shown[1].vg)))

\* a move with a text of generation 2 and a text of an unresolved group
C30_Unresolved ==
  /\ TextReady
  /\ input.selectedGen = "all"
  /\ ~input.showAllGenText
  /\ \E i \in EnglishTexts : ResolvedGen(i) = 2
  /\ Len(output.shown) = 1
  /\ output.shown[1].vg = LostGroup

\* the names whose existence flag is set to b
Flagged(b) == {n \in DOMAIN pokemonExistsCache : pokemonExistsCache[n] = b}

\* C31: every name whose existence flag is true has an entity in
\* pokemonCache, and a getPokemonDataSmart call that got a positive probe
\* returned an entity, never undefined.
C31_PositiveHasEntity ==
  /\ \A n \in Flagged(TRUE) : MapHas(pokemonCache, n) /\ Truthy(MapGet(pokemonCache, n))
  /\ (DoneSmart /\ \E which \in {"candidate", "default", "species"} :
                     <<which, TRUE>> \in lastDone.how)
       => (lastDone.res # Undefined /\ Truthy(lastDone.res))

\* a resolver call answered from a positive probe of the regional candidate
C31_Witness ==
  /\ DoneSmart
  /\ <<"candidate", TRUE>> \in lastDone.how
  /\ lastDone.res = Entity(RaichuAlola)
  /\ RaichuAlola \in Flagged(TRUE)
  /\ Flagged(FALSE) # {}

\* C32: no name has the existence flag false while pokemonCache holds an
\* entity for it.
C32_FlagAgreesWithEntity ==
  \A n \in Flagged(FALSE) : ~MapHas(pokemonCache, n)

\* the type and the damage class of a move payload, with the fallbacks
Projection(data) ==
  [kind |-> "mini",
   type |-> IF data.type = Undefined THEN <<"unknown">> ELSE data.type.name,
   dmgClass |-> IF data.damage_class = Undefined THEN <<"status">> ELSE data.damage_class.name]

\* C33: for every move in both caches, the entry of moveMiniCache is the
\* projection of the entry of moveCache.
C33_MiniIsProjection ==
  \A m \in DOMAIN moveCache \cap DOMAIN moveMiniCache :
    moveMiniCache[m] = Projection(moveCache[m])

(***************************************************************************)
(* Move popup of the detail view (App.jsx 1359-1390, 1691-1694,            *)
(* 1855-1860): picking a move opens the popup and runs loadMove, closing   *)
(* it runs the cleanup; the icons of the move list call getMoveMini.       *)
(***************************************************************************)
Popup(eff, details, loading) ==
  [kind |-> "popup", eff |-> eff, selectedMove |-> Tackle, moveDetails |-> details,
   moveDetailsLoading |-> loading]

PopupArg(eff) == [kind |-> "popup", name |-> Tackle, eff |-> eff]

\* onPickMove, and loadMove up to its first await
PickMove(t) ==
  /\ modal = Closed
  /\ FreeSlot(t)
  /\ Len(alive) < MaxEffects
  /\ alive' = Append(alive, TRUE)
  /\ IF MapHas(moveCache, Tackle)
       THEN /\ modal' = Popup(Len(alive) + 1, MapGet(moveCache, Tackle), FALSE)
            /\ UNCHANGED stack
       ELSE /\ modal' = Popup(Len(alive) + 1, Null, TRUE)
            /\ stack' = [stack EXCEPT ![t] =
                 EnterFetch(<<Frame("DetailsModal.loadMove", "fetched",
                                    PopupArg(Len(alive) + 1))>>, Url("move", Tackle))]
  /\ UNCHANGED <<store, dbOk, memVars, genVars, slugVars, appVars, pureVars, contentVars, calls,
                 restarts, first, lastDone, commit>>

\* onClose of the popup, and the cleanup of the effect
ClosePopup ==
  /\ modal # Closed
  /\ modal.kind = "popup"
  /\ alive' = [alive EXCEPT ![modal.eff] = FALSE]
  /\ modal' = Closed
  /\ UNCHANGED <<store, dbOk, stack, memVars, genVars, slugVars, appVars, pureVars, contentVars,
                 calls, restarts, first, lastDone, commit>>

\* loadMove resumed from `await fetchJsonOrNull(.../move/${selectedMove})`
MoveLoaded(t) ==
  /\ Running(t, "DetailsModal.loadMove", "fetched")
  /\ LET f == Top(t)
         data == f.r
     IN /\ stack' = [stack EXCEPT ![t] = <<>>]
        /\ IF data = Thrown \/ ~alive[f.a.eff]
             THEN UNCHANGED <<moveCache, modal>>
             ELSE /\ moveCache' = RememberData(moveCache, f.a.name, data)
                  /\ modal' = Popup(f.a.eff, IF Truthy(data) THEN data ELSE Null, FALSE)
  /\ UNCHANGED <<store, dbOk, memVars, genVars, slugVars, appVars, pureVars, spriteCache,
                 moveMiniCache, abilityCache, itemCache, itemCategoryCache, calls, restarts,
                 first, lastDone, alive, commit>>

NextPopup ==
  \/ \E t \in Tasks : PickMove(t)
  \/ ClosePopup
  \/ \E t \in Tasks : MoveLoaded(t)
  \/ \E t \in Tasks : CallMoveMini(t)
  \/ \E t \in Tasks : MiniFetched(t)
  \/ \E t \in Tasks : FetchGet(t)
  \/ \E t \in Tasks : FetchNet(t)
  \/ \E t \in Tasks : FetchJson(t)
  \/ \E t \in Tasks : FetchPut(t)
  \/ \E t \in Tasks : Deliver(t)

SpecPopup == InitCommon /\ [][NextPopup]_vars

\* the part of C33 that holds: a mini entry that differs from the projection
\* is the fallback memoised for a failed fetch
C33_ProjectionOrFallback ==
  \A m \in DOMAIN moveCache \cap DOMAIN moveMiniCache :
    moveMiniCache[m] \in {Projection(moveCache[m]), MiniOf(Null)}

\* getMoveMini failed first, then the popup loaded the move
C33_LoaderAfterFailure ==
  /\ modal # Closed
  /\ modal.kind = "popup"
  /\ modal.moveDetails # Null
  /\ MapHas(moveCache, Tackle)
  /\ MapHas(moveMiniCache, Tackle)
  /\ MapGet(moveMiniCache, Tackle) = MiniOf(Null)
  /\ \A t \in Tasks : stack[t] = <<>>

(***************************************************************************)
(* The detail view under the assumption that every fetch settles and every *)
(* resumed chain runs: each task's pending step is eventually taken.  The  *)
(* user's actions (open, change dex, close) are not forced.                *)
(***************************************************************************)
ChainStep(t) ==
  \/ LoadSpecies(t)
  \/ LoadMetas(t)
  \/ LoadBasePoke(t)
  \/ VariantProbe(t)
  \/ VariantRegional(t)
  \/ ExistsFetched(t)
  \/ Deliver(t)
  \/ FetchGet(t)
  \/ FetchNet(t)
  \/ FetchJson(t)
  \/ FetchPut(t)

SpecViewFair == SpecView /\ \A t \in Tasks : WF_vars(ChainStep(t))

\* the view of effect run e is the one on screen
ViewOf(e) == modal # Closed /\ modal.kind = "modal" /\ modal.eff = e

FlagsCleared == ~modal.loading /\ ~modal.vfLoading /\ ~modal.evoLoading

\* C34: while the view of an effect run is not torn down, its flags
\* loading, vfLoading and evoLoading all become false: a view that is on
\* screen is eventually either torn down or shown with the three flags false.
C34_FlagsEventuallyFalse ==
  \A e \in 1..MaxEffects : ViewOf(e) ~> (~ViewOf(e) \/ FlagsCleared)

\* a view whose species fetch failed: every chain has ended, loading is
\* false, the other two flags are still true
C34_Stuck ==
  /\ dbOk
  /\ modal # Closed
  /\ \A t \in Tasks : stack[t] = <<>>
  /\ ~modal.loading
  /\ modal.species = Null
  /\ modal.vfLoading
  /\ modal.evoLoading

\* C35: once vfLoading is false, the selected variant of the view is the
\* pokemonName of an entry of its variant bucket.
C35_SelectedIsListed ==
  (modal # Closed /\ modal.kind = "modal" /\ ~modal.vfLoading)
    => \E i \in 1..Len(modal.variantOptions) :
         modal.variantOptions[i].pokemonName = modal.selectedVariant

\* C36: a fetchJsonOrNull call whose cache read failed does not raise: it
\* ends in the network result or null.
C36_ReadFailureAbsorbed ==
  (DoneFetch /\ "getfail" \in lastDone.how) =>
     /\ ~lastDone.raised
     /\ lastDone.res \in {Null, Upstream(lastDone.a)}

\* what holds instead: the call raises at the cache read, before any request
C36_ReadFailureRaises ==
  (DoneFetch /\ "getfail" \in lastDone.how) =>
     /\ lastDone.raised
     /\ ~lastDone.net
     /\ lastDone.how = {"getfail"}

(***************************************************************************)
(* Download for offline use (App.jsx 603-655, menu 762-803).  A download   *)
(* is an async chain of its own: the list is fetched directly, then every  *)
(* entry goes through fetchJsonOrNull.  `downloading` is one flag of the   *)
(* App shared by all chains.                                               *)
(***************************************************************************)
\* `selectedDex` (useState("national"))
selectedDex == DexNational

\* What the API serves for GET /pokedex/{dex} and GET /move?limit=10000
UpstreamList(key) ==
  IF key.kind = "pokedex"
    THEN [kind |-> "pokedex", name |-> key.name,
          pokemon_entries |-> <<[pokemon_species |-> NameVal(Raichu)]>>]
    ELSE [kind |-> "move-list", results |-> <<[url |-> Url("move", Tackle)]>>]

\* What `await fetch(listUrl)` can produce
ListResponses(key) ==
  {NoResponse, Response(FALSE, ErrBody), Response(TRUE, UpstreamList(key)),
   Response(TRUE, Malformed)}

Loops == {"downloadRegional", "downloadGeneral"}

\* the number of download chains under way
Started == Cardinality({t \in Tasks : stack[t] # <<>>})

\* `Math.round((count / entries.length) * 100)`
Percent(count, length) == (200 * count + length) \div (2 * length)

\* downloadRegional / downloadGeneral up to the first await:
\* setDownloading(true); setDownloadProgress(0); fetch(list)
EnterLoop(s, fn) ==
  Append(s, Frame(fn, "list",
                  IF fn = "downloadRegional" THEN Url("pokedex", selectedDex)
                  ELSE Url("move-list", <<"all">>)))

\* whether a decoded body has the list the loop iterates over (iterating
\* over undefined throws)
HasEntries(fn, data) ==
  data.kind = (IF fn = "downloadRegional" THEN "pokedex" ELSE "move-list")

\* the entries of a decoded list: data.pokemon_entries / data.results
EntriesOf(fn, data) ==
  IF fn = "downloadRegional" THEN data.pokemon_entries ELSE data.results

\* the first request made for entry i of the list
EntryFetch(fn, entries, i) ==
  IF fn = "downloadRegional"
    THEN Url("pokemon-species", entries[i].pokemon_species.name)
    ELSE entries[i].url

\* `setDownloading(false)` after the try/catch, and the return.  The flag is
\* cleared by the chain that ends, whatever the other chains are doing.
LoopEnds(t) ==
  /\ downloading' = FALSE
  /\ Ret(t, stack[t], Undefined)

\* onClick of "Download This Dex"
ClickDownloadThisDex(t) ==
  /\ downloadOpen
  /\ FreeSlot(t)
  /\ calls < MaxCalls
  /\ Started < MaxLoops
  /\ calls' = calls + 1
  /\ downloadOpen' = FALSE
  /\ downloading' = TRUE
  /\ downloadProgress' = 0
  /\ stack' = [stack EXCEPT ![t] = EnterLoop(<<>>, "downloadRegional")]
  /\ UNCHANGED <<store, dbOk, memVars, genVars, slugVars, pureVars, contentVars, restarts,
                 first, lastDone, viewVars, confirmClear, clearTimer>>

\* onClick of "Download All": downloadAll up to `await downloadRegional()`
ClickDownloadAll(t) ==
  /\ downloadOpen
  /\ FreeSlot(t)
  /\ calls < MaxCalls
  /\ Started < MaxLoops
  /\ calls' = calls + 1
  /\ downloadOpen' = FALSE
  /\ downloading' = TRUE
  /\ downloadProgress' = 0
  /\ stack' = [stack EXCEPT ![t] =
        EnterLoop(<<Frame("downloadAll", "regional", Undefined)>>, "downloadRegional")]
  /\ UNCHANGED <<store, dbOk, memVars, genVars, slugVars, pureVars, contentVars, restarts,
                 first, lastDone, viewVars, confirmClear, clearTimer>>

\* onClick of the "Download" button: setDownloadOpen((v) => !v).  The menu
\* exists only while it is open, so its onMouseLeave and the placeholder item
\* "Download Current Pokemon" (setDownloadOpen(false)) are this step taken
\* from the open menu.
ToggleDownloadMenu ==
  /\ downloadOpen' = ~downloadOpen
  /\ UNCHANGED <<store, dbOk, stack, memVars, genVars, slugVars, pureVars, contentVars,
                 calls, restarts, first, lastDone, viewVars, downloading, downloadProgress,
                 confirmClear, clearTimer>>

\* a loop resumed from `await fetch(list)`
DownloadListed(t) ==
  /\ stack[t] # <<>>
  /\ Top(t).fn \in Loops
  /\ Top(t).pc = "list"
  /\ \E res \in ListResponses(Top(t).a) :
       IF res = NoResponse
         THEN LoopEnds(t)
         ELSE /\ stack' = [stack EXCEPT ![t] =
                    SetTop(stack[t], [Top(t) EXCEPT !.pc = "json", !.b = res])]
              /\ UNCHANGED <<first, lastDone, downloading>>
  /\ UNCHANGED <<store, dbOk, memVars, genVars, slugVars, pureVars, contentVars, calls,
                 restarts, viewVars, downloadProgress, downloadOpen, confirmClear,
                 clearTimer>>

\* a loop resumed from `await res.json()`: the loop starts on the first entry.
\* A body that does not decode, or that has no list, ends in the catch block.
DownloadParsed(t) ==
  /\ stack[t] # <<>>
  /\ Top(t).fn \in Loops
  /\ Top(t).pc = "json"
  /\ LET f == Top(t)
         entries == EntriesOf(f.fn, f.b.body)
     IN IF f.b.body = Malformed \/ ~HasEntries(f.fn, f.b.body) \/ Len(entries) = 0
          THEN LoopEnds(t)
          ELSE /\ stack' = [stack EXCEPT ![t] =
                     EnterFetch(SetTop(stack[t],
                                       [f EXCEPT !.pc = "first",
                                                 !.b = [entries |-> entries, count |-> 0]]),
                                EntryFetch(f.fn, entries, 1))]
               /\ UNCHANGED <<first, lastDone, downloading>>
  /\ UNCHANGED <<store, dbOk, memVars, genVars, slugVars, pureVars, contentVars, calls,
                 restarts, viewVars, downloadProgress, downloadOpen, confirmClear,
                 clearTimer>>

\* downloadRegional resumed from `await fetchJsonOrNull(speciesUrl)`
DownloadSpecies(t) ==
  /\ Running(t, "downloadRegional", "first")
  /\ LET f == Top(t) IN
     IF f.r = Thrown
       THEN LoopEnds(t)
       ELSE /\ stack' = [stack EXCEPT ![t] =
                  EnterFetch(SetTop(stack[t], [f EXCEPT !.pc = "second"]),
                             Url("pokemon",
                                 f.b.entries[f.b.count + 1].pokemon_species.name))]
            /\ UNCHANGED <<first, lastDone, downloading>>
  /\ UNCHANGED <<store, dbOk, memVars, genVars, slugVars, pureVars, contentVars, calls,
                 restarts, viewVars, downloadProgress, downloadOpen, confirmClear,
                 clearTimer>>

\* a loop resumed from the last await of an iteration: count++,
\* setDownloadProgress, and the next entry or the end of the loop
DownloadEntry(t) ==
  /\ \/ Running(t, "downloadRegional", "second")
     \/ Running(t, "downloadGeneral", "first")
  /\ LET f == Top(t)
         count == f.b.count + 1
     IN IF f.r = Thrown
          THEN LoopEnds(t) /\ UNCHANGED downloadProgress
        ELSE /\ downloadProgress' = Percent(count, Len(f.b.entries))
             /\ IF count < Len(f.b.entries)
                  THEN /\ stack' = [stack EXCEPT ![t] =
                             EnterFetch(SetTop(stack[t],
                                               [f EXCEPT !.pc = "first", !.b.count = count]),
                                        EntryFetch(f.fn, f.b.entries, count + 1))]
                       /\ UNCHANGED <<first, lastDone, downloading>>
                  ELSE LoopEnds(t)
  /\ UNCHANGED <<store, dbOk, memVars, genVars, slugVars, pureVars, contentVars, calls,
                 restarts, viewVars, downloadOpen, confirmClear, clearTimer>>

\* downloadAll resumed from `await downloadRegional()`: downloadGeneral is
\* called and awaited
DownloadAllNext(t) ==
  /\ Running(t, "downloadAll", "regional")
  /\ downloading' = TRUE
  /\ downloadProgress' = 0
  /\ stack' = [stack EXCEPT ![t] =
        EnterLoop(SetTop(stack[t], [Top(t) EXCEPT !.pc = "general"]), "downloadGeneral")]
  /\ UNCHANGED <<store, dbOk, memVars, genVars, slugVars, pureVars, contentVars, calls,
                 restarts, first, lastDone, viewVars, downloadOpen, confirmClear,
                 clearTimer>>

\* downloadAll resumed from `await downloadGeneral()`
DownloadAllDone(t) ==
  /\ Running(t, "downloadAll", "general")
  /\ Ret(t, stack[t], Undefined)
  /\ UNCHANGED <<store, dbOk, memVars, genVars, slugVars, appVars, pureVars, contentVars,
                 calls, restarts, viewVars>>

NextDownload ==
  \/ ToggleDownloadMenu
  \/ \E t \in Tasks : ClickDownloadThisDex(t)
  \/ \E t \in Tasks : ClickDownloadAll(t)
  \/ \E t \in Tasks : DownloadListed(t)
  \/ \E t \in Tasks : DownloadParsed(t)
  \/ \E t \in Tasks : DownloadSpecies(t)
  \/ \E t \in Tasks : DownloadEntry(t)
  \/ \E t \in Tasks : DownloadAllNext(t)
  \/ \E t \in Tasks : DownloadAllDone(t)
  \/ \E t \in Tasks : FetchGet(t)
  \/ \E t \in Tasks : FetchNet(t)
  \/ \E t \in Tasks : FetchJson(t)
  \/ \E t \in Tasks : FetchPut(t)

SpecDownload == InitCommon /\ [][NextDownload]_vars

\* chain t is inside a download loop and a request for one of its entries
\* is pending
Fetching(t) ==
  \E i \in 1..Len(stack[t]) : stack[t][i].fn \in Loops /\ stack[t][i].pc \in {"first", "second"}

\* C37: the downloading flag is true in every state in which some download
\* loop, started from any menu item and overlapping or not, still has
\* entries left to fetch; so the flag is false only when no loop is working
\* on its entries.
C37_DownloadingWhileFetching == (\E t \in Tasks : Fetching(t)) => downloading

\* A loop started while another one was running is still fetching its
\* entries after the other one ended and cleared the flag.
C37_ClearedByOtherLoop ==
  /\ ~downloading
  /\ lastDone.fn \in Loops
  /\ \E t \in Tasks : Fetching(t)

\* With a single chain (no overlapping start) the flag covers the loop.
C37_SingleLoopCovered ==
  ((\A t \in Tasks : t > 1 => stack[t] = <<>>) /\ calls <= 1 /\ Fetching(1)) => downloading

(***************************************************************************)
(* The Delete Cache button (App.jsx 806-820) and the auto-cancel effect of *)
(* confirmClear (537-542).  The first click arms the button, the effect    *)
(* starts a 4 second timeout that disarms it; a click on the armed button  *)
(* disarms it and runs clearOfflineCache.  A state update is rendered, and *)
(* the effect run, before the next click or timeout is handled.            *)
(***************************************************************************)
\* `if (!confirmClear)` reads the flag of the current render
Armed_Always(flag) == TRUE
Armed(flag) == flag

\* onClick of the button
DeleteCacheClick ==
  IF ~Armed(confirmClear)
    THEN /\ confirmClear' = TRUE
         /\ clearTimer' = TRUE
         /\ UNCHANGED <<store, dbOk, stack, memVars, genVars, slugVars, pureVars,
                        contentVars, calls, restarts, first, lastDone, viewVars,
                        downloading, downloadProgress, downloadOpen>>
    ELSE ClearOfflineCache

\* the timeout of the effect fires: setConfirmClear(false)
AutoCancel ==
  /\ clearTimer
  /\ confirmClear' = FALSE
  /\ clearTimer' = FALSE
  /\ UNCHANGED <<store, dbOk, stack, memVars, genVars, slugVars, pureVars, contentVars,
                 calls, restarts, first, lastDone, viewVars, downloading, downloadProgress,
                 downloadOpen>>

NextDelete ==
  \/ DeleteCacheClick
  \/ AutoCancel
  \/ \E t \in Tasks : CallExists(t)
  \/ \E t \in Tasks : FetchGet(t)
  \/ \E t \in Tasks : FetchNet(t)
  \/ \E t \in Tasks : FetchJson(t)
  \/ \E t \in Tasks : FetchPut(t)
  \/ \E t \in Tasks : ExistsFetched(t)
  \/ \E t \in Tasks : Deliver(t)

SpecDelete == InitCommon /\ [][NextDelete]_vars

\* C38: clearOfflineCache runs only in a step taken while confirmClear is
\* true, and confirmClear is true exactly from the click that armed the
\* button until the pending auto-cancel timeout fires or the confirming
\* click is made; so a single click, or a click after the timeout fired,
\* clears nothing.
C38_ClearOnlyWhenArmed ==
  /\ [](confirmClear <=> clearTimer)
  /\ [][ClearStep => (confirmClear /\ clearTimer /\ ~confirmClear')]_vars
  /\ [][(clearTimer /\ ~clearTimer') => ~confirmClear']_vars

\* the cache was cleared by a confirming click after a name had been
\* resolved and stored
C38_Witness ==
  /\ lastDone.fn = "clearOfflineCache"
  /\ restarts = 1
  /\ ~confirmClear
  /\ store = EmptyMap
  /\ first # EmptyMap

====
